---- MODULE Spec2Model ----
(***************************************************************************)
(* Model of the stub generator of the orca CLI (src/stub/main.go):         *)
(* mapInternalStateToTmpl (registry aggregation) and GeneratePythonStubs   *)
(* (directory and file creation, template execution).                      *)
(*                                                                         *)
(* A Go string is modelled as the sequence of its characters, each a       *)
(* one-character TLA+ string; only ASCII characters are used, so bytes and *)
(* runes coincide.                                                         *)
(***************************************************************************)
EXTENDS Integers, Sequences, FiniteSets, TLC

(***************************************************************************)
(* Bounds of the model.                                                    *)
(***************************************************************************)
\* processors in a registry
MaxProcs == 2
\* algorithms in a registry, all processors together
MaxAlgos == 3
\* invocations of GeneratePythonStubs against the same output root
MaxRuns == 2
\* algorithms in a registry given to one of several calls, to the rendering or
\* to the sync command
MaxCallAlgos == 2

\* a nil errno, a nil error value, a nil *AllProcessors
Nil == "nil"
NoErr == [kind |-> "nil"]
NilData == [nil |-> TRUE]

(***************************************************************************)
(* Characters and their byte values.                                       *)
(***************************************************************************)
Ord ==
  ("a" :> 97) @@ ("b" :> 98) @@ ("c" :> 99) @@ ("d" :> 100) @@ ("e" :> 101) @@
  ("f" :> 102) @@ ("g" :> 103) @@ ("o" :> 111) @@ ("p" :> 112) @@ ("v" :> 118) @@
  ("w" :> 119) @@ ("x" :> 120) @@ ("y" :> 121) @@
  ("F" :> 70) @@ ("G" :> 71) @@ ("H" :> 72) @@ ("Y" :> 89) @@
  ("0" :> 48) @@ ("1" :> 49) @@ ("2" :> 50) @@ ("9" :> 57) @@
  ("_" :> 95) @@ ("." :> 46)

Digits == {"0", "1", "2", "3", "4", "5", "6", "7", "8", "9"}

Underscore == <<"_">>

(***************************************************************************)
(* hash/crc32 with the IEEE polynomial.  A 32-bit word is a sequence of 32 *)
(* bits, least significant bit first.                                      *)
(***************************************************************************)
HexDigit == <<"0", "1", "2", "3", "4", "5", "6", "7",
              "8", "9", "a", "b", "c", "d", "e", "f">>

NibbleBits(n) == << n % 2, (n \div 2) % 2, (n \div 4) % 2, (n \div 8) % 2 >>

\* crc32.IEEE = 0xedb88320 (the reversed polynomial), nibbles from the least significant
IEEE ==
  NibbleBits(0) \o NibbleBits(2) \o NibbleBits(3) \o NibbleBits(8) \o
  NibbleBits(8) \o NibbleBits(11) \o NibbleBits(13) \o NibbleBits(14)

Xor32(x, y) == SubSeq([i \in 1..32 |-> (x[i] + y[i]) % 2], 1, 32)

Shr1(x) == Tail(x) \o <<0>>

Not32(x) == SubSeq([i \in 1..32 |-> 1 - x[i]], 1, 32)

ByteBits(b) ==
  NibbleBits(b % 16) \o NibbleBits(b \div 16) \o
  SubSeq([i \in 1..24 |-> 0], 1, 24)

CrcRound(c) == IF c[1] = 1 THEN Xor32(Shr1(c), IEEE) ELSE Shr1(c)

\* the eight shift rounds of one byte
CrcRounds(c) ==
  CrcRound(CrcRound(CrcRound(CrcRound(CrcRound(CrcRound(CrcRound(CrcRound(c))))))))

\* the register of a fresh digest, kept inverted as the update loop uses it
NewIEEE == SubSeq([i \in 1..32 |-> 1], 1, 32)

\* h.Write(p): one table step per byte, here as the eight shift rounds it stands for
\* (the register is a word after every byte; testing it makes TLC compute it
\* before the next byte is read)
RECURSIVE HashWrite(_, _)
HashWrite(h, p) ==
  IF p = <<>> THEN h
  ELSE LET h1 == CrcRounds(Xor32(h, ByteBits(Ord[Head(p)]))) IN
       IF Len(h1) = 32 THEN HashWrite(h1, Tail(p)) ELSE h1

Sum32(h) == Not32(h)

NibbleAt(x, k) == x[4*k + 1] + 2 * x[4*k + 2] + 4 * x[4*k + 3] + 8 * x[4*k + 4]

RECURSIVE StripZeros(_)
StripZeros(s) ==
  IF Len(s) > 1 /\ Head(s) = "0" THEN StripZeros(Tail(s)) ELSE s

\* fmt's %x of a uint32: lower-case hexadecimal, no padding
FmtHex(x) == StripZeros(SubSeq([k \in 1..8 |-> HexDigit[NibbleAt(x, 8 - k) + 1]], 1, 8))

(***************************************************************************)
(* Identifier helpers (template functions).                                *)
(***************************************************************************)
\* strconv.Atoi(string(r)) succeeds exactly for a single decimal digit
IsDigit(r) == r \in Digits

\* (mutant) a leading digit is replaced by '_' instead of being prefixed with it
RECURSIVE SanitiseFrom_DigitReplaced(_, _)
SanitiseFrom_DigitReplaced(s, i) ==
  IF i > Len(s) THEN <<>>
  ELSE IF i = 1 /\ IsDigit(s[i]) THEN <<"_">> \o SanitiseFrom_DigitReplaced(s, i + 1)
  ELSE IF s[i] = "." THEN <<"_">> \o SanitiseFrom_DigitReplaced(s, i + 1)
  ELSE <<s[i]>> \o SanitiseFrom_DigitReplaced(s, i + 1)

RECURSIVE SanitiseFrom(_, _)
SanitiseFrom(s, i) ==
  IF i > Len(s) THEN <<>>
  ELSE IF i = 1 /\ IsDigit(s[i]) THEN <<"_", s[i]>> \o SanitiseFrom(s, i + 1)
  ELSE IF s[i] = "." THEN <<"_">> \o SanitiseFrom(s, i + 1)
  ELSE <<s[i]>> \o SanitiseFrom(s, i + 1)

sanitiseVariableName(s) == SanitiseFrom(s, 1)

(***************************************************************************)
(* The registry (pb.InternalState): the inputs the runs draw from.         *)
(***************************************************************************)
ResultTypes == {"ARRAY", "STRUCT", "VALUE", "NONE", "NOT_SPECIFIED"}

Field(n, d) == [name |-> n, description |-> d]

WindowPool ==
  << [name |-> <<"w", "_", "x">>, version |-> <<"1">>, description |-> <<"d">>,
      metadataFields |-> << Field(<<"a">>, <<"d">>), Field(<<"b">>, <<"d">>) >>],
     \* another name and version, the same name_version text
     [name |-> <<"w">>, version |-> <<"x", "_", "1">>, description |-> <<"e">>,
      metadataFields |-> << Field(<<"b">>, <<"e">>) >>],
     \* the first window's name and version, another description and field list
     [name |-> <<"w", "_", "x">>, version |-> <<"1">>, description |-> <<"e">>,
      metadataFields |-> << Field(<<"b">>, <<"e">>), Field(<<"a">>, <<"d">>) >>],
     [name |-> <<"v">>, version |-> <<"1">>, description |-> <<"d">>,
      metadataFields |-> << >>] >>

Algo(n, v, w, rt) ==
  [name |-> n, version |-> v, description |-> <<"d">>, windowType |-> w, resultType |-> rt]

AlgoPool ==
  { Algo(<<"F">>, <<"1">>, WindowPool[1], "VALUE"),
    Algo(<<"F">>, <<"1">>, WindowPool[2], "ARRAY"),
    Algo(<<"9", ".", "x">>, <<"1">>, WindowPool[3], "STRUCT"),
    Algo(<<"G">>, <<"2">>, WindowPool[4], "NOT_SPECIFIED"),
    Algo(<<"H">>, <<"2">>, WindowPool[2], "NONE") }

\* name, connection string, runtime of the i-th processor of a registry
ProcPool ==
  << [name |-> <<"a">>, connStr |-> <<"b", "c">>, runtime |-> <<"p", "y">>],
     [name |-> <<"a", "b">>, connStr |-> <<"c">>, runtime |-> <<"g", "o">>],
     [name |-> <<"c">>, connStr |-> <<"a", "b">>, runtime |-> <<"p", "y">>] >>

\* the ways to cut n algorithms into k consecutive per-processor lists
Cuts(n, k) ==
  { c \in [0..k -> 0..n] :
      /\ c[0] = 0
      /\ c[k] = n
      /\ \A i \in 1..k : c[i - 1] <= c[i] }

MkRegistry(s, c, k) ==
  [i \in 1..k |->
     [name |-> ProcPool[i].name,
      connStr |-> ProcPool[i].connStr,
      runtime |-> ProcPool[i].runtime,
      supportedAlgorithms |-> SubSeq(s, c[i - 1] + 1, c[i])]]

Registries ==
  UNION { UNION { { MkRegistry(s, c, k) : s \in [1..n -> AlgoPool], c \in Cuts(n, k) }
                  : n \in (IF k = 0 THEN {0} ELSE 0..MaxAlgos) }
          : k \in 0..MaxProcs }

(***************************************************************************)
(* The state.                                                              *)
(***************************************************************************)
VARIABLES
  input,               \* internalState, the registry of the current run
  pc,                  \* position of the current run
  ii, jj,              \* processor and algorithm indices of the aggregation loops
  usedReturnTypes,     \* map[string]bool, as the set of its keys
  globalMetadataMap,   \* map[string]Metadata
  globalWindowsMap,    \* map[string]Window
  supportedAlgorithms, \* []Algorithm of the processor being walked
  processorDatas,      \* []ProcessorData
  mapErr, tmplData,    \* what mapInternalStateToTmpl returned
  retErr,              \* what GeneratePythonStubs returned
  dirs,                \* the directories that exist
  files,               \* the state of each file of the registry directory
  touched,             \* directories and files created, truncated or written by this run
  examined,            \* the <<processor, algorithm>> iterations this run executed
  runs,                \* runs started so far
  prevData,            \* the model of the run before, when it had the same registry
  call, out,           \* a call of a template helper function and what it returned
  syncPc,              \* position of the sync command
  internalState,       \* what orcaCoreClient.Expose returned
  exposeCalls,         \* calls of orcaCoreClient.Expose so far
  exitCode,            \* exit status of the process, NotExited while it runs
  surfaced,            \* the error message the command printed
  lifePc,              \* position of the start or destroy command
  ops,                 \* the docker operations the command has run, with their outcome
  ctxDone,             \* the context of waitForPgReady is done
  waitErr,             \* what waitForPgReady returned
  response,            \* what the user answered to the question of destroy
  docker               \* the containers, volumes and network that exist

\* the variables of GeneratePythonStubs and of the file system
genVars ==
  << input, pc, ii, jj, usedReturnTypes, globalMetadataMap, globalWindowsMap,
     supportedAlgorithms, processorDatas, mapErr, tmplData, retErr,
     dirs, files, touched, examined, runs, prevData >>

\* the variables of a helper call
helperVars == << call, out >>

\* the variables of the sync command
syncVars == << syncPc, internalState, exposeCalls, exitCode, surfaced >>

\* the variables of the start and destroy commands
lifeVars == << lifePc, ops, ctxDone, waitErr, response, docker >>

vars == << genVars, helperVars, syncVars, lifeVars >>

aggVars ==
  << ii, jj, usedReturnTypes, globalMetadataMap, globalWindowsMap,
     supportedAlgorithms, processorDatas, mapErr, tmplData, examined >>

\* outDir's parent, outDir, and the fixed nested path below it, outermost first
DirChain == <<"parent", "outDir", "orca_python", "registry">>

InitFile == "__init__.pyi"
AlgorithmsFile == "algorithms.pyi"
WindowTypesFile == "window_types.pyi"
MetadataFieldsFile == "metadata_fields.pyi"

\* in the order GeneratePythonStubs creates them
FileOrder == << InitFile, AlgorithmsFile, WindowTypesFile, MetadataFieldsFile >>
FileNames == { FileOrder[i] : i \in 1..Len(FileOrder) }
GeneratedFiles == FileNames \ {InitFile}

EmptyMap == << >>

\* no helper call, and no result of one
NoCall == [fn |-> "none", n |-> 0, text |-> << >>]
NoOut == [done |-> FALSE, text |-> << >>]

\* the process is running; nothing was printed
NotExited == -1
NoMessage == [stage |-> "none", err |-> NoErr]

\* the containers, their volumes and the network (constants.go)
pgContainerName == "orca-pg-instance"
redisContainerName == "orca-redis-instance"
orcaContainerName == "orca-instance"
orcaContainers == << pgContainerName, redisContainerName, orcaContainerName >>
orcaVolumes == << "orca-pg-instance-data", "orca-redis-instance-data" >>
networkName == "orca-network"

\* waitForPgReady has not returned
Waiting == [kind |-> "waiting"]

\* nothing exists in docker
NoDocker ==
  [status |-> [c \in { orcaContainers[x] : x \in 1..Len(orcaContainers) } |-> "not found"],
   volumes |-> {}, network |-> FALSE]

\* neither start nor destroy is run
LifeOff ==
  /\ lifePc = "off"
  /\ ops = << >>
  /\ ctxDone = FALSE
  /\ waitErr = Waiting
  /\ response = << >>
  /\ docker = NoDocker

Init ==
  /\ input = << >>
  /\ pc = "idle"
  /\ ii = 1
  /\ jj = 1
  /\ usedReturnTypes = {}
  /\ globalMetadataMap = EmptyMap
  /\ globalWindowsMap = EmptyMap
  /\ supportedAlgorithms = << >>
  /\ processorDatas = << >>
  /\ mapErr = NoErr
  /\ tmplData = NilData
  /\ retErr = NoErr
  \* outDir does not exist yet; its parent may be missing too
  /\ dirs \in { {}, {"parent"} }
  /\ files = [f \in FileNames |-> "absent"]
  /\ touched = {}
  /\ examined = {}
  /\ runs = 0
  /\ prevData = NilData
  \* no helper is called, and GeneratePythonStubs is called directly
  /\ call = NoCall
  /\ out = NoOut
  /\ syncPc = "off"
  /\ internalState = << >>
  /\ exposeCalls = 0
  /\ exitCode = NotExited
  /\ surfaced = NoMessage
  /\ LifeOff

(***************************************************************************)
(* mapInternalStateToTmpl                                                  *)
(***************************************************************************)
Metadata(f) == [VarName |-> f.name, KeyName |-> f.name, Description |-> f.description]

windowKeyOf(w) == w.name \o Underscore \o w.version

\* (mutant) every occurrence overwrites the registered entry
RECURSIVE RegisterMetadata_LastWins(_, _)
RegisterMetadata_LastWins(m, fields) ==
  IF fields = << >> THEN m
  ELSE LET f == Head(fields) IN
       RegisterMetadata_LastWins(
         [n \in DOMAIN m \cup {f.name} |-> IF n = f.name THEN Metadata(f) ELSE m[n]],
         Tail(fields))

\* (mutant) only the first field of a window is registered
RegisterMetadata_FirstFieldOnly(m, fields) ==
  IF fields = << >> \/ Head(fields).name \in DOMAIN m THEN m
  ELSE m @@ (Head(fields).name :> Metadata(Head(fields)))

\* the loop over the window's metadata fields: a name is registered once
RECURSIVE RegisterMetadata(_, _)
RegisterMetadata(m, fields) ==
  IF fields = << >> THEN m
  ELSE LET f == Head(fields) IN
       RegisterMetadata(IF f.name \in DOMAIN m THEN m ELSE m @@ (f.name :> Metadata(f)),
                        Tail(fields))

metadataForWindowOf(w) == [kk \in 1..Len(w.metadataFields) |-> Metadata(w.metadataFields[kk])]

\* (mutant) the window is registered again at every encounter
RegisterWindow_LastWins(m, w) ==
  [k \in DOMAIN m \cup {windowKeyOf(w)} |->
     IF k = windowKeyOf(w)
     THEN [VarName |-> windowKeyOf(w),
           Name |-> w.name,
           Version |-> w.version,
           Description |-> w.description,
           Metadata |-> metadataForWindowOf(w)]
     ELSE m[k]]

RegisterWindow(m, w) ==
  IF windowKeyOf(w) \in DOMAIN m THEN m
  ELSE m @@ (windowKeyOf(w) :>
               [VarName |-> windowKeyOf(w),
                Name |-> w.name,
                Version |-> w.version,
                Description |-> w.description,
                Metadata |-> metadataForWindowOf(w)])

\* (mutant) the switch has no branch for NONE: the return type stays empty
ReturnTypeOf_NoneFallsThrough(rt) ==
  CASE rt = "ARRAY" -> "ArrayResult"
    [] rt = "STRUCT" -> "StructResult"
    [] rt = "VALUE" -> "ValueResult"
    [] OTHER -> ""

\* the switch on the result type; it has no default branch
ReturnTypeOf(rt) ==
  CASE rt = "ARRAY" -> "ArrayResult"
    [] rt = "STRUCT" -> "StructResult"
    [] rt = "VALUE" -> "ValueResult"
    [] rt = "NONE" -> "NoneResult"
    [] OTHER -> ""

\* (mutant) the switch has no branch for the sentinel
IsNotSpecified_Never(rt) == FALSE

\* case pb.ResultType_NOT_SPECIFIED
IsNotSpecified(rt) == rt = "NOT_SPECIFIED"

\* (mutant) the connection string is left out of the checksum
algorithmHashOf_NoConnStr(proc, algo) ==
  LET h1 == HashWrite(NewIEEE, proc.name)
      h3 == HashWrite(h1, algo.windowType.name)
      h4 == HashWrite(h3, algo.windowType.version)
      h5 == HashWrite(h4, algo.name)
      h6 == HashWrite(h5, algo.version)
  IN IF /\ Len(h1) = 32 /\ Len(h3) = 32
        /\ Len(h4) = 32 /\ Len(h5) = 32 /\ Len(h6) = 32
     THEN Sum32(h6)
     ELSE << >>

\* the six Write calls on the digest, then Sum32
\* (the tests make TLC compute each register before the next Write)
algorithmHashOf(proc, algo) ==
  LET h1 == HashWrite(NewIEEE, proc.name)
      h2 == HashWrite(h1, proc.connStr)
      h3 == HashWrite(h2, algo.windowType.name)
      h4 == HashWrite(h3, algo.windowType.version)
      h5 == HashWrite(h4, algo.name)
      h6 == HashWrite(h5, algo.version)
  IN IF /\ Len(h1) = 32 /\ Len(h2) = 32 /\ Len(h3) = 32
        /\ Len(h4) = 32 /\ Len(h5) = 32 /\ Len(h6) = 32
     THEN Sum32(h6)
     ELSE << >>

\* (mutant) the separator between the name and the checksum is missing
AlgorithmVarName_NoSeparator(algo, hash) == algo.name \o FmtHex(hash)

AlgorithmVarName(algo, hash) == algo.name \o Underscore \o FmtHex(hash)

AlgorithmOf(proc, algo) ==
  LET algorithmHash == algorithmHashOf(proc, algo) IN
  [Name |-> algo.name,
   VarName |-> AlgorithmVarName(algo, algorithmHash),
   ProcessorName |-> proc.name,
   ProcessorRuntime |-> proc.runtime,
   Version |-> algo.version,
   ReturnType |-> ReturnTypeOf(algo.resultType),
   WindowVarName |-> windowKeyOf(algo.windowType),
   Hash |-> FmtHex(algorithmHash),
   Description |-> algo.description]

\* (mutant) the processor arguments of the message are swapped
NotSpecifiedError_Swapped(proc, algo) ==
  [kind |-> "notSpecified", algorithm |-> algo.name, version |-> algo.version,
   processor |-> proc.runtime, runtime |-> proc.name]

\* "result type not specified for algorithm %v_%v on processor %v_%v"
NotSpecifiedError(proc, algo) ==
  [kind |-> "notSpecified", algorithm |-> algo.name, version |-> algo.version,
   processor |-> proc.name, runtime |-> proc.runtime]

\* "could not parse internal state: %w"
WrapParseError(e) == [kind |-> "parse", wraps |-> e]

\* (mutant) the names in alphabetical order
availableTypes_Sorted == <<"ArrayResult", "NoneResult", "StructResult", "ValueResult">>

availableTypes == <<"StructResult", "ValueResult", "NoneResult", "ArrayResult">>

importListOf(used) == SelectSeq(availableTypes, LAMBDA t : t \in used)

\* the orders in which a range over a Go map may visit its keys
RangeOrders(m) ==
  { o \in [1..Cardinality(DOMAIN m) -> DOMAIN m] :
      \A x, y \in 1..Cardinality(DOMAIN m) : o[x] = o[y] => x = y }

SliceOf(m, o) == [x \in 1..Len(o) |-> m[o[x]]]

\* (mutant) the maps of the aggregation outlive the call: they are not made afresh
BeginRun_KeepsAccumulators(r, prev) ==
  /\ runs < MaxRuns
  /\ runs' = runs + 1
  /\ prevData' = prev
  /\ input' = r
  /\ pc' = "agg"
  /\ ii' = 1
  /\ jj' = 1
  /\ supportedAlgorithms' = << >>
  /\ processorDatas' = << >>
  /\ mapErr' = NoErr
  /\ tmplData' = NilData
  /\ retErr' = NoErr
  /\ touched' = {}
  /\ examined' = {}
  /\ UNCHANGED << usedReturnTypes, globalMetadataMap, globalWindowsMap,
                  dirs, files, helperVars, syncVars, lifeVars >>

\* GeneratePythonStubs is entered with registry r: the aggregation makes its
\* accumulators afresh; prev is the model to remember from the run before
BeginRun(r, prev) ==
  /\ runs < MaxRuns
  /\ runs' = runs + 1
  /\ prevData' = prev
  /\ input' = r
  /\ pc' = "agg"
  /\ ii' = 1
  /\ jj' = 1
  /\ usedReturnTypes' = {}
  /\ globalMetadataMap' = EmptyMap
  /\ globalWindowsMap' = EmptyMap
  /\ supportedAlgorithms' = << >>
  /\ processorDatas' = << >>
  /\ mapErr' = NoErr
  /\ tmplData' = NilData
  /\ retErr' = NoErr
  /\ touched' = {}
  /\ examined' = {}
  /\ UNCHANGED << dirs, files, helperVars, syncVars, lifeVars >>

\* the first run against the output root
StartRun(r) ==
  /\ pc = "idle"
  /\ BeginRun(r, NilData)

\* after a run that succeeded, the same registry is generated again into the same root
Rerun ==
  /\ pc = "returned"
  /\ retErr = NoErr
  /\ BeginRun(input, tmplData)

\* one iteration of the loop over a processor's algorithms
AggStep ==
  /\ pc = "agg"
  /\ ii <= Len(input)
  /\ jj <= Len(input[ii].supportedAlgorithms)
  /\ LET proc == input[ii]
         algo == proc.supportedAlgorithms[jj]
     IN /\ examined' = examined \cup {<<ii, jj>>}
        /\ globalMetadataMap' = RegisterMetadata(globalMetadataMap, algo.windowType.metadataFields)
        /\ globalWindowsMap' = RegisterWindow(globalWindowsMap, algo.windowType)
        /\ IF IsNotSpecified(algo.resultType)
           THEN \* the aggregation returns the error and no model; so does the caller
                /\ mapErr' = NotSpecifiedError(proc, algo)
                /\ tmplData' = NilData
                /\ retErr' = WrapParseError(NotSpecifiedError(proc, algo))
                /\ pc' = "returned"
                /\ UNCHANGED << usedReturnTypes, supportedAlgorithms, jj >>
           ELSE /\ usedReturnTypes' = usedReturnTypes \cup {ReturnTypeOf(algo.resultType)}
                /\ supportedAlgorithms' = Append(supportedAlgorithms, AlgorithmOf(proc, algo))
                /\ jj' = jj + 1
                /\ UNCHANGED << mapErr, tmplData, retErr, pc >>
  /\ UNCHANGED << input, ii, processorDatas, dirs, files, touched, runs, prevData,
                  helperVars, syncVars, lifeVars >>

\* (mutant) the algorithm list is not made afresh for each processor
ProcDone_KeepsAlgorithms ==
  /\ pc = "agg"
  /\ ii <= Len(input)
  /\ jj > Len(input[ii].supportedAlgorithms)
  /\ processorDatas' = Append(processorDatas,
                              [Name |-> input[ii].name, Algorithms |-> supportedAlgorithms])
  /\ ii' = ii + 1
  /\ jj' = 1
  /\ UNCHANGED << input, pc, usedReturnTypes, globalMetadataMap, globalWindowsMap,
                  supportedAlgorithms, mapErr, tmplData, retErr, dirs, files, touched,
                  examined, runs, prevData, helperVars, syncVars, lifeVars >>

\* the end of one iteration of the loop over the processors
ProcDone ==
  /\ pc = "agg"
  /\ ii <= Len(input)
  /\ jj > Len(input[ii].supportedAlgorithms)
  /\ processorDatas' = Append(processorDatas,
                              [Name |-> input[ii].name, Algorithms |-> supportedAlgorithms])
  /\ ii' = ii + 1
  /\ jj' = 1
  /\ supportedAlgorithms' = << >>
  /\ UNCHANGED << input, pc, usedReturnTypes, globalMetadataMap, globalWindowsMap,
                  mapErr, tmplData, retErr, dirs, files, touched, examined, runs, prevData,
                  helperVars, syncVars, lifeVars >>

\* the maps become slices, the import list is built, the model is returned
AggFinish ==
  /\ pc = "agg"
  /\ ii > Len(input)
  /\ \E mo \in RangeOrders(globalMetadataMap), wo \in RangeOrders(globalWindowsMap) :
       tmplData' = [Processors |-> processorDatas,
                    ImportTypes |-> importListOf(usedReturnTypes),
                    AllMetadata |-> SliceOf(globalMetadataMap, mo),
                    AllWindows |-> SliceOf(globalWindowsMap, wo)]
  /\ mapErr' = NoErr
  /\ pc' = "mkdir"
  /\ UNCHANGED << input, ii, jj, usedReturnTypes, globalMetadataMap, globalWindowsMap,
                  supportedAlgorithms, processorDatas, retErr, dirs, files, touched,
                  examined, runs, prevData, helperVars, syncVars, lifeVars >>

(***************************************************************************)
(* GeneratePythonStubs, after the aggregation                              *)
(***************************************************************************)
IsExist(e) == e = "EEXIST"

\* the error value of a failed system call
PathError(e) == [kind |-> e]

\* os.Mkdir(outDir): the error it returns; `denied` is the directory, if any,
\* that the file system refuses to create during this run
MkdirErr(d, denied) ==
  IF "outDir" \in d THEN "EEXIST"
  ELSE IF "parent" \notin d THEN "ENOENT"
  ELSE IF denied = "outDir" THEN "EACCES"
  ELSE Nil

\* (mutant) the leaf directory is made with os.Mkdir semantics: MkdirAll fails
\* when outDir/orca_python/registry exists already
MkdirAllStop_LeafExists(d, denied) ==
  IF DirChain[Len(DirChain)] \in d THEN Len(DirChain)
  ELSE IF \E i \in 1..Len(DirChain) : DirChain[i] \notin d /\ DirChain[i] = denied
  THEN CHOOSE i \in 1..Len(DirChain) : DirChain[i] \notin d /\ DirChain[i] = denied
  ELSE 0

\* os.MkdirAll(outDir/orca_python/registry): the index in DirChain of the
\* directory whose creation fails, 0 when none does
MkdirAllStop(d, denied) ==
  IF \E i \in 1..Len(DirChain) : DirChain[i] \notin d /\ DirChain[i] = denied
  THEN CHOOSE i \in 1..Len(DirChain) : DirChain[i] \notin d /\ DirChain[i] = denied
  ELSE 0

MkdirAllDirs(d, denied) ==
  LET stop == MkdirAllStop(d, denied) IN
  d \cup { DirChain[i] : i \in 1..(IF stop = 0 THEN Len(DirChain) ELSE stop - 1) }

\* err = os.Mkdir(...); err = os.MkdirAll(...): the error that is tested
MkDirsErr(d, denied) ==
  LET d1 == IF MkdirErr(d, denied) = Nil THEN d \cup {"outDir"} ELSE d IN
  IF MkdirAllStop(d1, denied) = 0 THEN Nil ELSE "EACCES"

MkDirs ==
  /\ pc = "mkdir"
  /\ \E denied \in {Nil} \cup { DirChain[i] : i \in 1..Len(DirChain) } :
       LET d1 == IF MkdirErr(dirs, denied) = Nil THEN dirs \cup {"outDir"} ELSE dirs
           err == MkDirsErr(dirs, denied)
       IN /\ dirs' = MkdirAllDirs(d1, denied)
          /\ touched' = touched \cup (MkdirAllDirs(d1, denied) \ dirs)
          /\ IF err # Nil /\ ~IsExist(err)
             THEN pc' = "returned" /\ retErr' = PathError(err)
             ELSE pc' = "createInit" /\ UNCHANGED retErr
  /\ UNCHANGED << input, aggVars, files, runs, prevData, helperVars, syncVars, lifeVars >>

\* os.Create opens with O_RDWR|O_CREATE|O_TRUNC: it creates or truncates, or fails
CreateErrors == {Nil, "EACCES"}

\* (mutant) the error of os.Create is not tested
CreateStep_ErrorIgnored(from, f, to) ==
  /\ pc = from
  /\ \E err \in CreateErrors :
       /\ files' = IF err = Nil THEN [files EXCEPT ![f] = "empty"] ELSE files
       /\ touched' = IF err = Nil THEN touched \cup {f} ELSE touched
       /\ pc' = to
  /\ UNCHANGED << input, aggVars, retErr, dirs, runs, prevData, helperVars, syncVars, lifeVars >>

CreateStep(from, f, to) ==
  /\ pc = from
  /\ \E err \in CreateErrors :
       /\ files' = IF err = Nil THEN [files EXCEPT ![f] = "empty"] ELSE files
       /\ touched' = IF err = Nil THEN touched \cup {f} ELSE touched
       /\ IF err # Nil /\ ~IsExist(err)
          THEN pc' = "returned" /\ retErr' = PathError(err)
          ELSE pc' = to /\ UNCHANGED retErr
  /\ UNCHANGED << input, aggVars, dirs, runs, prevData, helperVars, syncVars, lifeVars >>

CreateInit == CreateStep("createInit", InitFile, "createAlgorithms")

CreateAlgorithms == CreateStep("createAlgorithms", AlgorithmsFile, "createWindowTypes")

CreateWindowTypes == CreateStep("createWindowTypes", WindowTypesFile, "createMetadataFields")

CreateMetadataFields == CreateStep("createMetadataFields", MetadataFieldsFile, "execAlgo")

\* template.Execute writes into the open file; an error makes the run panic
ExecStep(from, f, to) ==
  /\ pc = from
  /\ \E ok \in BOOLEAN :
       /\ files' = [files EXCEPT ![f] = IF ok THEN "written" ELSE "partial"]
       /\ pc' = IF ok THEN to ELSE "panicked"
  /\ touched' = touched \cup {f}
  /\ UNCHANGED << input, aggVars, retErr, dirs, runs, prevData, helperVars, syncVars, lifeVars >>

ExecAlgo == ExecStep("execAlgo", AlgorithmsFile, "execWindowType")

ExecWindowType == ExecStep("execWindowType", WindowTypesFile, "execMetadata")

\* after the last template the function returns nil
ExecMetadata == ExecStep("execMetadata", MetadataFieldsFile, "returned")

Next ==
  \/ \E r \in Registries : StartRun(r)
  \/ Rerun
  \/ AggStep
  \/ ProcDone
  \/ AggFinish
  \/ MkDirs
  \/ CreateInit
  \/ CreateAlgorithms
  \/ CreateWindowTypes
  \/ CreateMetadataFields
  \/ ExecAlgo
  \/ ExecWindowType
  \/ ExecMetadata

Spec == Init /\ [][Next]_vars

(***************************************************************************)
(* Traversal order of a registry: processors in registry order, algorithms *)
(* in per-processor order, fields in window order.                         *)
(***************************************************************************)
Positions(reg) ==
  { p \in (1..Len(reg)) \X (1..MaxAlgos) : p[2] <= Len(reg[p[1]].supportedAlgorithms) }

AlgoAt(reg, p) == reg[p[1]].supportedAlgorithms[p[2]]

Before(p, q) == p[1] < q[1] \/ (p[1] = q[1] /\ p[2] < q[2])

NotSpecifiedAt(reg) == { p \in Positions(reg) : AlgoAt(reg, p).resultType = "NOT_SPECIFIED" }

\* the first position of a non-empty set of positions
FirstOf(ps) == CHOOSE p \in ps : \A q \in ps : ~Before(q, p)

\* the metadata field occurrences <<i, j, k>> of a registry
FieldPositions(reg) ==
  UNION { { <<p[1], p[2], k>> : k \in 1..Len(AlgoAt(reg, p).windowType.metadataFields) }
          : p \in Positions(reg) }

FieldAt(reg, t) == AlgoAt(reg, <<t[1], t[2]>>).windowType.metadataFields[t[3]]

FieldBefore(s, t) ==
  Before(<<s[1], s[2]>>, <<t[1], t[2]>>) \/ (s[1] = t[1] /\ s[2] = t[2] /\ s[3] < t[3])

FirstFieldOf(ts) == CHOOSE t \in ts : \A u \in ts : ~FieldBefore(u, t)

Succeeded == tmplData # NilData

\* mapInternalStateToTmpl has just returned its model to GeneratePythonStubs
AggReturned == Succeeded /\ pc = "mkdir"

ModelAlgoAt(p) == tmplData.Processors[p[1]].Algorithms[p[2]]

\* the six hashed fields, concatenated with no delimiter
Concat6(reg, p) ==
  reg[p[1]].name \o reg[p[1]].connStr \o
  AlgoAt(reg, p).windowType.name \o AlgoAt(reg, p).windowType.version \o
  AlgoAt(reg, p).name \o AlgoAt(reg, p).version

Crc32Hex(bytes) == FmtHex(Sum32(HashWrite(NewIEEE, bytes)))

SeqRange(s) == { s[x] : x \in 1..Len(s) }

(***************************************************************************)
(* The claims.                                                             *)
(***************************************************************************)

\* C1: whenever some algorithm of the registry has result kind NOT_SPECIFIED,
\* the aggregation ends with a non-nil error and a nil model, and
\* GeneratePythonStubs returns that error (wrapped) without this run having
\* created any directory or file: the run never gets past the aggregation.
C1_NotSpecifiedFailsBeforeAnyOutput ==
  (pc # "idle" /\ NotSpecifiedAt(input) # {}) =>
     /\ pc \in {"agg", "returned"}
     /\ touched = {}
     /\ pc = "returned" =>
          /\ mapErr # NoErr
          /\ tmplData = NilData
          /\ retErr = WrapParseError(mapErr)

C1_Witness ==
  /\ pc = "returned"
  /\ retErr # NoErr
  /\ tmplData = NilData
  /\ Len(input) = 2
  /\ NotSpecifiedAt(input) = {<<2, 1>>}
  /\ <<1, 1>> \in examined

\* C2 (as claimed): a run that ends in an error or a panic has created,
\* truncated or written either all of the three generated files or none.
C2_AllOrNothing ==
  (pc = "panicked" \/ (pc = "returned" /\ retErr # NoErr)) =>
     /\ touched \cap GeneratedFiles \in { {}, GeneratedFiles }
     /\ { f \in touched \cap GeneratedFiles : files[f] = "written" } \in { {}, GeneratedFiles }

\* C2 (amended): a run that fails in the aggregation touches nothing, a run that
\* returns nil has created all four files and written the three generated ones,
\* and any other run leaves a prefix: the files this run created or truncated are
\* a prefix of the creation order (__init__, algorithms, window_types,
\* metadata_fields), a file is written only once all four are created, and the
\* written files are a prefix of the rendering order.
C2_PrefixOnly ==
  LET created == touched \cap FileNames
      done(f) == f \in touched /\ files[f] = "written"
  IN /\ \A x \in 1..Len(FileOrder) :
          FileOrder[x] \in created => \A y \in 1..x : FileOrder[y] \in created
     /\ \A f \in GeneratedFiles :
          (f \in touched /\ files[f] \in {"written", "partial"}) => created = FileNames
     /\ done(WindowTypesFile) => done(AlgorithmsFile)
     /\ done(MetadataFieldsFile) => done(WindowTypesFile)
     /\ (pc = "returned" /\ mapErr # NoErr) => touched = {}
     /\ (pc = "returned" /\ retErr = NoErr) =>
          /\ created = FileNames
          /\ \A f \in GeneratedFiles : done(f)
     /\ pc = "panicked" => created = FileNames /\ ~done(MetadataFieldsFile)

C2_Witness ==
  /\ pc = "returned"
  /\ retErr # NoErr
  /\ touched \cap FileNames = {InitFile, AlgorithmsFile}
  /\ runs = 2

\* C3: two runs of the aggregation on the same registry produce identical
\* models, including the order of AllMetadata and of AllWindows.
C3_TwoRunsIdentical ==
  (prevData # NilData /\ Succeeded) => tmplData = prevData

\* C4 (as claimed): two algorithms with the same name in processors with
\* different names always receive distinct identifiers.
C4_DistinctIdentifiers ==
  AggReturned =>
    \A p, q \in Positions(input) :
      (/\ AlgoAt(input, p).name = AlgoAt(input, q).name
       /\ input[p[1]].name # input[q[1]].name)
      => ModelAlgoAt(p).VarName # ModelAlgoAt(q).VarName

\* C4 (amended): the identifier's suffix is the checksum of the six fields
\* concatenated with no delimiter, so two algorithms with the same name
\* receive the same identifier whenever their concatenations are byte-identical
\* (also when the processors' names differ), and distinct identifiers exactly
\* when their checksums differ.
C4_SameConcatSameIdentifier ==
  AggReturned =>
    /\ \A p \in Positions(input) : ModelAlgoAt(p).Hash = Crc32Hex(Concat6(input, p))
    /\ \A p, q \in Positions(input) :
         AlgoAt(input, p).name = AlgoAt(input, q).name =>
           /\ Concat6(input, p) = Concat6(input, q)
                => ModelAlgoAt(p).VarName = ModelAlgoAt(q).VarName
           /\ ModelAlgoAt(p).VarName = ModelAlgoAt(q).VarName
                <=> ModelAlgoAt(p).Hash = ModelAlgoAt(q).Hash

C4_Witness ==
  /\ AggReturned
  /\ \E p, q \in Positions(input) :
       /\ AlgoAt(input, p).name = AlgoAt(input, q).name
       /\ input[p[1]].name # input[q[1]].name
       /\ input[p[1]].connStr # input[q[1]].connStr
       /\ ModelAlgoAt(p).VarName = ModelAlgoAt(q).VarName

\* C5: when two or more algorithms reference windows with the same name and
\* the same version, AllWindows holds exactly one entry with that name and
\* that version.
C5_OneWindowPerNameAndVersion ==
  AggReturned =>
    \A p, q \in Positions(input) :
      (/\ p # q
       /\ AlgoAt(input, p).windowType.name = AlgoAt(input, q).windowType.name
       /\ AlgoAt(input, p).windowType.version = AlgoAt(input, q).windowType.version)
      => Cardinality({ x \in 1..Len(tmplData.AllWindows) :
                         /\ tmplData.AllWindows[x].Name = AlgoAt(input, p).windowType.name
                         /\ tmplData.AllWindows[x].Version = AlgoAt(input, p).windowType.version })
           = 1

\* C6: AllMetadata holds exactly one entry per distinct metadata field name
\* occurring in any algorithm's window, and the entry carries the description
\* of the first occurrence of the name in traversal order; a later occurrence
\* with another description does not replace it.
C6_MetadataFirstOccurrenceWins ==
  AggReturned =>
    LET all == tmplData.AllMetadata
        names == { FieldAt(input, t).name : t \in FieldPositions(input) }
    IN /\ { all[x].KeyName : x \in 1..Len(all) } = names
       /\ Len(all) = Cardinality(names)
       /\ \A x \in 1..Len(all) :
            LET first == FirstFieldOf({ t \in FieldPositions(input) :
                                          FieldAt(input, t).name = all[x].KeyName })
            IN /\ all[x].Description = FieldAt(input, first).description
               /\ all[x].VarName = all[x].KeyName

C6_Witness ==
  /\ AggReturned
  /\ \E s, t \in FieldPositions(input) :
       /\ FieldBefore(s, t)
       /\ FieldAt(input, s).name = FieldAt(input, t).name
       /\ FieldAt(input, s).description # FieldAt(input, t).description
       /\ \A u \in FieldPositions(input) :
            FieldAt(input, u).name = FieldAt(input, s).name => ~FieldBefore(u, s)
       /\ \E x \in 1..Len(tmplData.AllMetadata) :
            /\ tmplData.AllMetadata[x].KeyName = FieldAt(input, s).name
            /\ tmplData.AllMetadata[x].Description = FieldAt(input, s).description

\* C7: for every window key, the entry of AllWindows has the name, version,
\* description and ordered field list of the first algorithm in traversal
\* order whose window has that key; a later algorithm with the same key and
\* another description or field list does not change the entry, and each key
\* has one entry.
C7_WindowFirstOccurrenceWins ==
  AggReturned =>
    LET all == tmplData.AllWindows
        keys == { windowKeyOf(AlgoAt(input, p).windowType) : p \in Positions(input) }
    IN /\ { all[x].VarName : x \in 1..Len(all) } = keys
       /\ Len(all) = Cardinality(keys)
       /\ \A x \in 1..Len(all) :
            LET first == FirstOf({ p \in Positions(input) :
                                     windowKeyOf(AlgoAt(input, p).windowType) = all[x].VarName })
                w == AlgoAt(input, first).windowType
            IN /\ all[x].Name = w.name
               /\ all[x].Version = w.version
               /\ all[x].Description = w.description
               /\ Len(all[x].Metadata) = Len(w.metadataFields)
               /\ \A k \in 1..Len(w.metadataFields) :
                    /\ all[x].Metadata[k].KeyName = w.metadataFields[k].name
                    /\ all[x].Metadata[k].Description = w.metadataFields[k].description

C7_Witness ==
  /\ AggReturned
  /\ \E p, q \in Positions(input) :
       /\ Before(p, q)
       /\ \A r \in Positions(input) : ~Before(r, p)
       /\ windowKeyOf(AlgoAt(input, p).windowType) = windowKeyOf(AlgoAt(input, q).windowType)
       /\ AlgoAt(input, p).windowType.description # AlgoAt(input, q).windowType.description
       /\ AlgoAt(input, p).windowType.metadataFields # AlgoAt(input, q).windowType.metadataFields
       /\ \E x \in 1..Len(tmplData.AllWindows) :
            tmplData.AllWindows[x].Description = AlgoAt(input, p).windowType.description

\* the canonical order of the import names, and the name each result kind maps to
C8_Canonical == <<"StructResult", "ValueResult", "NoneResult", "ArrayResult">>

C8_Rank(t) == CHOOSE x \in 1..Len(C8_Canonical) : C8_Canonical[x] = t

C8_KindName ==
  [rt \in ResultTypes \ {"NOT_SPECIFIED"} |->
     CASE rt = "STRUCT" -> "StructResult"
       [] rt = "VALUE" -> "ValueResult"
       [] rt = "NONE" -> "NoneResult"
       [] rt = "ARRAY" -> "ArrayResult"]

\* C8: the import list of a successful aggregation is the subsequence of
\* [StructResult, ValueResult, NoneResult, ArrayResult] made of the kinds used
\* by at least one algorithm: no duplicates, no unused kind, no used kind
\* missing, in canonical order; it depends only on the set of kinds used, so
\* no permutation of processors or algorithms changes it (VALUE and ARRAY
\* alone give [ValueResult, ArrayResult]).
C8_ImportListCanonical ==
  AggReturned =>
    LET L == tmplData.ImportTypes
        used == { C8_KindName[AlgoAt(input, p).resultType] : p \in Positions(input) }
    IN /\ SeqRange(L) = used
       /\ \A x, y \in 1..Len(L) : x < y => C8_Rank(L[x]) < C8_Rank(L[y])
       /\ used = {"ValueResult", "ArrayResult"} => L = <<"ValueResult", "ArrayResult">>

C8_Witness ==
  /\ AggReturned
  /\ tmplData.ImportTypes = <<"ValueResult", "ArrayResult">>
  /\ <<1, 1>> \in Positions(input)
  /\ AlgoAt(input, <<1, 1>>).resultType = "ARRAY"
  /\ Len(input) = 2

\* C9: when the aggregation fails on an unspecified result kind, the error
\* names the algorithm name, the algorithm version and the processor name of
\* the first offending algorithm in traversal order, and no algorithm after
\* it has been examined.
C9_ErrorNamesFirstOffender ==
  (pc = "returned" /\ mapErr # NoErr) =>
    LET first == FirstOf(NotSpecifiedAt(input)) IN
    /\ NotSpecifiedAt(input) # {}
    /\ mapErr.algorithm = AlgoAt(input, first).name
    /\ mapErr.version = AlgoAt(input, first).version
    /\ mapErr.processor = input[first[1]].name
    /\ examined = { p \in Positions(input) : ~Before(first, p) }
    /\ retErr = WrapParseError(mapErr)

C9_Witness ==
  /\ pc = "returned"
  /\ mapErr # NoErr
  /\ Cardinality(NotSpecifiedAt(input)) = 2
  /\ FirstOf(NotSpecifiedAt(input)) = <<1, 2>>
  /\ Len(input) = 2
  /\ mapErr.processor = <<"a">>

\* C10 (as claimed): the identifier stored in the model is
\* SanitiseVariableName(algorithm name), "_", the lower-case hexadecimal
\* CRC-32 of the six fields; it contains no '.' and does not start with a digit.
C10_IdentifierIsSanitised ==
  AggReturned =>
    \A p \in Positions(input) :
      /\ ModelAlgoAt(p).VarName =
           sanitiseVariableName(AlgoAt(input, p).name) \o Underscore \o Crc32Hex(Concat6(input, p))
      /\ "." \notin SeqRange(ModelAlgoAt(p).VarName)
      /\ Head(ModelAlgoAt(p).VarName) \notin Digits

\* C10 (amended): the identifier stored in the model is the algorithm name as
\* given (not sanitised), "_", the lower-case hexadecimal CRC-32 of the six
\* fields without leading zeros; a '.' or a leading digit of the name is still
\* in it, and sanitising the stored identifier gives
\* SanitiseVariableName(name), "_", checksum.
C10_IdentifierIsRawNameAndChecksum ==
  AggReturned =>
    \A p \in Positions(input) :
      LET hex == Crc32Hex(Concat6(input, p)) IN
      /\ ModelAlgoAt(p).VarName = AlgoAt(input, p).name \o Underscore \o hex
      /\ ModelAlgoAt(p).Hash = hex
      /\ SeqRange(hex) \subseteq SeqRange(HexDigit)
      /\ Len(hex) \in 1..8
      /\ sanitiseVariableName(ModelAlgoAt(p).VarName) =
           sanitiseVariableName(AlgoAt(input, p).name) \o Underscore \o hex

C10_Witness ==
  /\ AggReturned
  /\ \E p \in Positions(input) :
       /\ "." \in SeqRange(AlgoAt(input, p).name)
       /\ Head(AlgoAt(input, p).name) \in Digits
       /\ Head(ModelAlgoAt(p).VarName) = "9"
       /\ "." \in SeqRange(ModelAlgoAt(p).VarName)

(***************************************************************************)
(* The template helper functions: wrapText, pythonIndent, toSnakeCase      *)
(* (sanitiseVariableName is defined above).                                *)
(***************************************************************************)
\* unicode.IsSpace, for the characters of the model
IsSpace(c) == c \in {" ", "\t", "\n"}

\* strings.TrimSpace
RECURSIVE TrimSpace(_)
TrimSpace(s) ==
  IF s = << >> THEN s
  ELSE IF IsSpace(Head(s)) THEN TrimSpace(Tail(s))
  ELSE IF IsSpace(s[Len(s)]) THEN TrimSpace(SubSeq(s, 1, Len(s) - 1))
  ELSE s

\* strings.Fields: the maximal runs of non-space characters
RECURSIVE Fields(_)
Fields(s) ==
  IF s = << >> THEN << >>
  ELSE IF IsSpace(Head(s)) THEN Fields(Tail(s))
  ELSE LET end == CHOOSE k \in 1..Len(s) :
                    /\ \A x \in 1..k : ~IsSpace(s[x])
                    /\ k = Len(s) \/ IsSpace(s[k + 1])
       IN << SubSeq(s, 1, end) >> \o Fields(SubSeq(s, end + 1, Len(s)))

\* (mutant) the line is broken before a word that does not fit also when the
\* line is empty
RECURSIVE WrapFrom_BreaksEmptyLine(_, _, _, _, _)
WrapFrom_BreaksEmptyLine(words, i, limit, currentLineLength, result) ==
  IF i > Len(words) THEN result
  ELSE LET word == words[i]
           break == currentLineLength + Len(word) > limit
           sep == IF break THEN << "\n" >> ELSE IF i > 1 THEN << " " >> ELSE << >>
           len == IF break THEN 0 ELSE IF i > 1 THEN currentLineLength + 1
                  ELSE currentLineLength
       IN WrapFrom_BreaksEmptyLine(words, i + 1, limit, len + Len(word),
                                   result \o sep \o word)

\* the loop of wrapText from word i on (i counts from 1, Go's from 0)
RECURSIVE WrapFrom(_, _, _, _, _)
WrapFrom(words, i, limit, currentLineLength, result) ==
  IF i > Len(words) THEN result
  ELSE LET word == words[i]
           break == currentLineLength + Len(word) > limit /\ currentLineLength > 0
           sep == IF break THEN << "\n" >> ELSE IF i > 1 THEN << " " >> ELSE << >>
           len == IF break THEN 0 ELSE IF i > 1 THEN currentLineLength + 1
                  ELSE currentLineLength
       IN WrapFrom(words, i + 1, limit, len + Len(word), result \o sep \o word)

wrapText(limit, text) ==
  LET words == Fields(TrimSpace(text)) IN
  IF Len(words) = 0 THEN << >> ELSE WrapFrom(words, 1, limit, 0, << >>)

\* strings.Repeat(" ", spaces)
Repeat(c, count) == [x \in 1..count |-> c]

\* strings.ReplaceAll(text, "\n", "\n" + prefix)
RECURSIVE ReplaceNewlines(_, _)
ReplaceNewlines(text, prefix) ==
  IF text = << >> THEN << >>
  ELSE IF Head(text) = "\n" THEN << "\n" >> \o prefix \o ReplaceNewlines(Tail(text), prefix)
  ELSE << Head(text) >> \o ReplaceNewlines(Tail(text), prefix)

\* (mutant) the first line is not indented
pythonIndent_FirstLineBare(spaces, text) ==
  ReplaceNewlines(text, Repeat(" ", spaces))

pythonIndent(spaces, text) ==
  LET prefix == Repeat(" ", spaces) IN prefix \o ReplaceNewlines(text, prefix)

\* r >= 'A' && r <= 'Z'
IsUpper(r) == r \in DOMAIN Ord /\ Ord[r] >= 65 /\ Ord[r] <= 90

\* r + 32
ToLower(r) == CHOOSE c \in DOMAIN Ord : Ord[c] = Ord[r] + 32

\* (mutant) a run of upper-case letters is kept together: the underscore goes
\* only before an upper-case letter that follows a character that is not one
RECURSIVE SnakeFrom_AcronymGrouping(_, _)
SnakeFrom_AcronymGrouping(s, i) ==
  IF i > Len(s) THEN << >>
  ELSE (IF i > 1 /\ IsUpper(s[i]) /\ ~IsUpper(s[i - 1]) THEN << "_" >> ELSE << >>)
       \o (IF IsUpper(s[i]) THEN << ToLower(s[i]) >> ELSE << s[i] >>)
       \o SnakeFrom_AcronymGrouping(s, i + 1)

RECURSIVE SnakeFrom(_, _)
SnakeFrom(s, i) ==
  IF i > Len(s) THEN << >>
  ELSE (IF i > 1 /\ IsUpper(s[i]) THEN << "_" >> ELSE << >>)
       \o (IF IsUpper(s[i]) THEN << ToLower(s[i]) >> ELSE << s[i] >>)
       \o SnakeFrom(s, i + 1)

toSnakeCase(s) == SnakeFrom(s, 1)

(***************************************************************************)
(* A helper is called once, as a template calls it, on an argument drawn   *)
(* from bounded sets of texts.                                             *)
(***************************************************************************)
\* longest text given to wrapText and pythonIndent
MaxTextLen == 6
\* largest limit of wrapText and largest indentation of pythonIndent
MaxLimit == 4
\* longest name given to toSnakeCase and sanitiseVariableName
MaxNameLen == 4

ProseAlphabet == {"a", " ", "\n"}
SnakeAlphabet == {"a", "f", "F", "G", "_", "9"}
NameAlphabet == {"a", "F", "9", ".", "_", "-", " "}

\* the call is fn(n, text), text being any text over the alphabet of at most
\* maxLen characters
IsCall(fn, numbers, alphabet, maxLen) ==
  \E k \in numbers, len \in 0..maxLen :
    \E t \in [1..len -> alphabet] : call = [fn |-> fn, n |-> k, text |-> t]

HelperInit ==
  /\ \/ IsCall("wrapText", 0..MaxLimit, ProseAlphabet, MaxTextLen)
     \/ IsCall("pythonIndent", 0..MaxLimit, ProseAlphabet, MaxTextLen)
     \/ IsCall("toSnakeCase", {0}, SnakeAlphabet, MaxNameLen)
     \/ IsCall("sanitiseVariableName", {0}, NameAlphabet, MaxNameLen)
  /\ out = NoOut
  /\ input = << >>
  /\ pc = "idle"
  /\ ii = 1
  /\ jj = 1
  /\ usedReturnTypes = {}
  /\ globalMetadataMap = EmptyMap
  /\ globalWindowsMap = EmptyMap
  /\ supportedAlgorithms = << >>
  /\ processorDatas = << >>
  /\ mapErr = NoErr
  /\ tmplData = NilData
  /\ retErr = NoErr
  /\ dirs = {}
  /\ files = [f \in FileNames |-> "absent"]
  /\ touched = {}
  /\ examined = {}
  /\ runs = 0
  /\ prevData = NilData
  /\ syncPc = "off"
  /\ internalState = << >>
  /\ exposeCalls = 0
  /\ exitCode = NotExited
  /\ surfaced = NoMessage
  /\ LifeOff

Return(fn, text) ==
  /\ call.fn = fn
  /\ ~out.done
  /\ out' = [done |-> TRUE, text |-> text]
  /\ UNCHANGED << call, genVars, syncVars, lifeVars >>

CallWrapText == Return("wrapText", wrapText(call.n, call.text))

CallPythonIndent == Return("pythonIndent", pythonIndent(call.n, call.text))

CallToSnakeCase == Return("toSnakeCase", toSnakeCase(call.text))

CallSanitiseVariableName == Return("sanitiseVariableName", sanitiseVariableName(call.text))

HelperNext ==
  \/ CallWrapText
  \/ CallPythonIndent
  \/ CallToSnakeCase
  \/ CallSanitiseVariableName

SpecHelpers == HelperInit /\ [][HelperNext]_vars

\* the lines of a text: the pieces between its newlines
RECURSIVE LinesOf(_)
LinesOf(s) ==
  IF \A x \in 1..Len(s) : s[x] # "\n" THEN << s >>
  ELSE LET nl == CHOOSE k \in 1..Len(s) : s[k] = "\n" /\ \A x \in 1..(k - 1) : s[x] # "\n"
       IN << SubSeq(s, 1, nl - 1) >> \o LinesOf(SubSeq(s, nl + 1, Len(s)))

Returned(fn) == call.fn = fn /\ out.done

\* C11: no line of the result of wrapText is longer than limit, except a line
\* made of one single word that is itself longer than limit.
C11_NoLineLongerThanLimit ==
  Returned("wrapText") =>
    \A x \in 1..Len(LinesOf(out.text)) :
      LET line == LinesOf(out.text)[x] IN
      \/ Len(line) <= call.n
      \/ \A y \in 1..Len(line) : ~IsSpace(line[y])

\* the letters, the upper-case letters and their lower-case forms, among the
\* characters of the model
C12_Letters == {"a", "b", "c", "d", "e", "f", "g", "o", "p", "v", "w", "x", "y", "F", "G", "H"}

C13_UpperCase == {"F", "G", "H"}

C13_LowerOf == [c \in C13_UpperCase |-> CASE c = "F" -> "f" [] c = "G" -> "g" [] c = "H" -> "h"]

\* C12: for every input, the result of sanitiseVariableName is a valid
\* identifier: not empty, made of letters, digits and underscores only, and
\* not starting with a digit.
C12_AlwaysValidIdentifier ==
  Returned("sanitiseVariableName") =>
    /\ out.text # << >>
    /\ \A x \in 1..Len(out.text) : out.text[x] \in C12_Letters \cup Digits \cup {"_"}
    /\ Head(out.text) \notin Digits

\* the upper-case letters of s at the positions 2..k
C13_UppersUpTo(s, k) == Cardinality({ x \in 2..k : s[x] \in C13_UpperCase })

\* C13: toSnakeCase(s) is s with an underscore inserted before every
\* upper-case letter that is not the first character and every upper-case
\* letter lower-cased, each letter of an upper-case run on its own: the result
\* is len(s) plus the number of upper-case letters at positions > 0 long, holds
\* no upper-case letter, and is s itself when s has no upper-case letter.
C13_SnakeCaseCharacterised ==
  Returned("toSnakeCase") =>
    LET s == call.text
        r == out.text
    IN /\ Len(r) = Len(s) + C13_UppersUpTo(s, Len(s))
       /\ \A k \in 1..Len(s) :
            LET at == k + C13_UppersUpTo(s, k) IN
            /\ r[at] = IF s[k] \in C13_UpperCase THEN C13_LowerOf[s[k]] ELSE s[k]
            /\ (k > 1 /\ s[k] \in C13_UpperCase) => r[at - 1] = "_"
       /\ \A x \in 1..Len(r) : r[x] \notin C13_UpperCase
       /\ (\A k \in 1..Len(s) : s[k] \notin C13_UpperCase) => r = s

\* an acronym followed by a word: one underscore per letter
C13_Witness ==
  /\ Returned("toSnakeCase")
  /\ call.text = << "F", "G", "F", "a" >>
  /\ out.text = << "f", "_", "g", "_", "f", "a" >>

\* C14: sanitiseVariableName(s) prefixes '_' exactly when the first character
\* of s is a decimal digit, keeping the digit, replaces every '.' by '_' and
\* leaves every other character in place; applying it again changes nothing.
C14_SanitiseCharacterised ==
  Returned("sanitiseVariableName") =>
    LET s == call.text
        r == out.text
        d == IF s # << >> /\ Head(s) \in Digits THEN 1 ELSE 0
    IN /\ Len(r) = Len(s) + d
       /\ d = 1 => Head(r) = "_"
       /\ (s # << >> /\ d = 0) => (Head(r) = "_" <=> Head(s) \in {"_", "."})
       /\ \A k \in 1..Len(s) : r[k + d] = IF s[k] = "." THEN "_" ELSE s[k]
       /\ sanitiseVariableName(r) = r

\* a leading digit and a dot in one name
C14_Witness ==
  /\ Returned("sanitiseVariableName")
  /\ call.text = << "9", ".", "a", "." >>
  /\ out.text = << "_", "9", "_", "a", "_" >>

\* what holds in every state of a second run against the same root
C15_SecondRunState ==
  runs = 2 =>
    /\ \A i \in 1..Len(DirChain) : DirChain[i] \in dirs
    /\ \A f \in FileNames : files[f] # "absent"
    /\ touched \subseteq FileNames
    /\ (pc = "returned" /\ retErr # NoErr) => ~IsExist(retErr.kind)
    /\ (pc = "returned" /\ retErr = NoErr) =>
         /\ files[InitFile] = "empty"
         /\ \A f \in GeneratedFiles : files[f] = "written"

\* what every step of a second run does: the directory step creates nothing
\* and goes on to the files, and creating a file that exists truncates it
C15_SecondRunStep ==
  runs = 2 =>
    /\ pc = "mkdir" => (pc' = "createInit" /\ dirs' = dirs /\ touched' = touched)
    /\ \A f \in FileNames :
         (f \notin touched /\ f \in touched') => files'[f] \in {"empty", "written", "partial"}

\* C15: GeneratePythonStubs run a second time against the same root, with the
\* same valid registry, does not fail because the root, the nested
\* orca_python/registry directory or the four files exist already: the
\* directories are found and kept, each file is truncated and written anew,
\* no error of the second run is an already-exists error, and the run leaves
\* the same four files.
C15_SecondRunNotHinderedByFirst ==
  []C15_SecondRunState /\ [][C15_SecondRunStep]_vars

C15_Witness ==
  /\ runs = 2
  /\ pc = "returned"
  /\ retErr = NoErr
  /\ touched = FileNames
  /\ \A f \in GeneratedFiles : files[f] = "written"

(***************************************************************************)
(* The algorithms artifact.  The templates (stub_templates/*.tmpl) are     *)
(* embedded files; the declarations they produce are taken from the        *)
(* specification and from the strings main_test.go expects:                *)
(* "def <name>(params: ExecutionParams) -> <ReturnType>:", one per         *)
(* algorithm, the name being the snake-cased, sanitised identifier.        *)
(***************************************************************************)
\* (mutant) the name is not converted to snake case
RenderedName_NoSnakeCase(a) == sanitiseVariableName(a.VarName)

RenderedName(a) == toSnakeCase(sanitiseVariableName(a.VarName))

AlgorithmDeclaration(a) == [def |-> RenderedName(a), returns |-> a.ReturnType]

\* the declarations of algorithms.pyi, in the order they are written:
\* processors in model order, algorithms in per-processor order
RECURSIVE DeclarationsFrom(_, _)
DeclarationsFrom(data, i) ==
  IF i > Len(data.Processors) THEN << >>
  ELSE [j \in 1..Len(data.Processors[i].Algorithms) |->
          AlgorithmDeclaration(data.Processors[i].Algorithms[j])]
       \o DeclarationsFrom(data, i + 1)

AlgorithmDeclarations(data) == DeclarationsFrom(data, 1)

\* registries for the rendering: names with upper-case letters, underscores,
\* dots and digits, and windows whose version ends where a name could begin
RenderWindowPool ==
  << [name |-> <<"w">>, version |-> <<"a", "_", "f">>, description |-> <<"d">>,
      metadataFields |-> << Field(<<"a">>, <<"d">>) >>],
     [name |-> <<"w">>, version |-> << >>, description |-> <<"d">>,
      metadataFields |-> << >>] >>

RenderAlgoPool ==
  { Algo(<<"a", "F">>, <<"1">>, RenderWindowPool[1], "VALUE"),
    Algo(<<"a", "_", "f">>, <<"a", "F", "1">>, RenderWindowPool[2], "ARRAY"),
    Algo(<<"F", "G">>, <<"1">>, RenderWindowPool[2], "STRUCT"),
    Algo(<<"9", ".", "x">>, <<"1">>, RenderWindowPool[1], "NONE") }

RenderRegistries ==
  UNION { UNION { { MkRegistry(s, c, k) : s \in [1..n -> RenderAlgoPool], c \in Cuts(n, k) }
                  : n \in (IF k = 0 THEN {0} ELSE 0..MaxCallAlgos) }
          : k \in 0..MaxProcs }

\* one run of GeneratePythonStubs on a registry of RenderRegistries
RenderNext ==
  \/ \E r \in RenderRegistries : StartRun(r)
  \/ AggStep
  \/ ProcDone
  \/ AggFinish
  \/ MkDirs
  \/ CreateInit
  \/ CreateAlgorithms
  \/ CreateWindowTypes
  \/ CreateMetadataFields
  \/ ExecAlgo
  \/ ExecWindowType
  \/ ExecMetadata

SpecRender == Init /\ [][RenderNext]_vars

\* algorithms.pyi has been rendered by this run
AlgorithmsRendered == AlgorithmsFile \in touched /\ files[AlgorithmsFile] = "written"

\* C16 (as claimed): the artifact has one declaration per algorithm, named
\* toSnakeCase of the identifier and annotated with the return kind, and two
\* algorithms with different identifiers never have the same declaration.
C16_DistinctIdentifiersDistinctDeclarations ==
  AlgorithmsRendered =>
    \A p, q \in Positions(input) :
      ModelAlgoAt(p).VarName # ModelAlgoAt(q).VarName
        => RenderedName(ModelAlgoAt(p)) # RenderedName(ModelAlgoAt(q))

\* the place of algorithm p among the declarations
C16_Index(p) == Cardinality({ q \in Positions(input) : Before(q, p) }) + 1

\* C16 (amended): the artifact holds as many declarations as the model has
\* algorithms, in traversal order; the declaration of an algorithm is named by
\* the snake-cased, sanitised identifier and annotated with the algorithm's
\* return kind; the names of two declarations differ exactly when the
\* snake-cased identifiers differ, which different identifiers need not do.
C16_OneDeclarationPerAlgorithm ==
  AlgorithmsRendered =>
    LET decls == AlgorithmDeclarations(tmplData) IN
    /\ Len(decls) = Cardinality(Positions(input))
    /\ \A p \in Positions(input) :
         LET a == ModelAlgoAt(p)
             d == decls[C16_Index(p)]
         IN /\ d.def = toSnakeCase(sanitiseVariableName(AlgoAt(input, p).name)
                                   \o Underscore \o a.Hash)
            /\ d.returns = C8_KindName[AlgoAt(input, p).resultType]
            /\ \A x \in 1..Len(d.def) : ~IsUpper(d.def[x]) /\ d.def[x] # "."
            /\ Head(d.def) \notin Digits
    /\ \A p, q \in Positions(input) :
         decls[C16_Index(p)].def = decls[C16_Index(q)].def
           <=> toSnakeCase(sanitiseVariableName(ModelAlgoAt(p).VarName))
                 = toSnakeCase(sanitiseVariableName(ModelAlgoAt(q).VarName))

\* two algorithms of one processor with different identifiers, declared under
\* the same name
C16_Witness ==
  /\ AlgorithmsRendered
  /\ Len(input) = 1
  /\ \E p, q \in Positions(input) :
       /\ AlgoAt(input, p).name = << "a", "F" >>
       /\ AlgoAt(input, q).name = << "a", "_", "f" >>
       /\ ModelAlgoAt(p).VarName # ModelAlgoAt(q).VarName
       /\ AlgorithmDeclarations(tmplData)[C16_Index(p)].def
            = AlgorithmDeclarations(tmplData)[C16_Index(q)].def
       /\ AlgorithmDeclarations(tmplData)[C16_Index(p)].returns = "ValueResult"
       /\ AlgorithmDeclarations(tmplData)[C16_Index(q)].returns = "ArrayResult"

\* C17: no destination file is created, truncated or written before the
\* rendering of all three artifacts has completed, so a run whose rendering
\* fails leaves the files of the run before untouched.
C17_RenderedBeforeAnyFileIsTouched ==
  /\ (touched \cap FileNames # {}) => (pc = "returned" /\ retErr = NoErr)
  /\ pc = "panicked" =>
       /\ touched \cap FileNames = {}
       /\ runs = 2 => \A f \in GeneratedFiles : files[f] = "written"

(***************************************************************************)
(* mapInternalStateToTmpl called several times in one process, on any      *)
(* registries, whether the call before returned a model or an error.       *)
(***************************************************************************)

CallRegistries ==
  { r \in Registries : Cardinality(Positions(r)) <= MaxCallAlgos }

\* the next call, after the one before returned its model (pc = "mkdir") or
\* its error (pc = "returned")
CallAgain(r) ==
  /\ pc \in {"mkdir", "returned"}
  /\ BeginRun(r, tmplData)

CallsNext ==
  \/ \E r \in CallRegistries : StartRun(r)
  \/ \E r \in CallRegistries : CallAgain(r)
  \/ AggStep
  \/ ProcDone
  \/ AggFinish

SpecCalls == Init /\ [][CallsNext]_vars

\* what aggregating registry R yields when nothing was aggregated before: the
\* metadata of the first occurrence of each field name, the window of the first
\* occurrence of each key, the kinds used in canonical order, the identifiers
C18_Fresh(R) ==
  [ metadata |->
      { Metadata(FieldAt(R, FirstFieldOf({ u \in FieldPositions(R) :
                                             FieldAt(R, u).name = FieldAt(R, t).name })))
          : t \in FieldPositions(R) },
    windows |->
      { LET w == AlgoAt(R, FirstOf({ q \in Positions(R) :
                   windowKeyOf(AlgoAt(R, q).windowType) = windowKeyOf(AlgoAt(R, p).windowType) })).windowType
        IN [VarName |-> windowKeyOf(w), Name |-> w.name, Version |-> w.version,
            Description |-> w.description,
            Metadata |-> [kk \in 1..Len(w.metadataFields) |-> Metadata(w.metadataFields[kk])]]
          : p \in Positions(R) },
    imports |->
      SelectSeq(C8_Canonical,
                LAMBDA t : \E p \in Positions(R) : C8_KindName[AlgoAt(R, p).resultType] = t),
    identifiers |->
      [p \in Positions(R) |-> AlgoAt(R, p).name \o Underscore \o Crc32Hex(Concat6(R, p))] ]

\* C18: whatever was aggregated before, and whether it failed, a call of
\* mapInternalStateToTmpl that returns a model returns the metadata set, the
\* window set, the import list and the identifiers that its registry yields
\* from empty accumulators; nothing of an earlier call is in the model.
C18_EveryCallStartsEmpty ==
  AggReturned =>
    LET fresh == C18_Fresh(input) IN
    /\ SeqRange(tmplData.AllMetadata) = fresh.metadata
    /\ Len(tmplData.AllMetadata) = Cardinality(fresh.metadata)
    /\ SeqRange(tmplData.AllWindows) = fresh.windows
    /\ Len(tmplData.AllWindows) = Cardinality(fresh.windows)
    /\ tmplData.ImportTypes = fresh.imports
    /\ \A p \in Positions(input) : ModelAlgoAt(p).VarName = fresh.identifiers[p]

\* a second call returned a model that lacks a field, a window and a return
\* kind of the model the first call returned
C18_Witness ==
  /\ AggReturned
  /\ runs = 2
  /\ prevData # NilData
  /\ SeqRange(prevData.AllMetadata) \ SeqRange(tmplData.AllMetadata) # {}
  /\ SeqRange(prevData.AllWindows) \ SeqRange(tmplData.AllWindows) # {}
  /\ SeqRange(prevData.ImportTypes) \ SeqRange(tmplData.ImportTypes) # {}
  /\ tmplData.AllMetadata # << >>

(***************************************************************************)
(* The sync command (main, case "sync"), from the creation of the output   *)
(* directory on: the SDK has been found to be python and the connection    *)
(* string is known.                                                        *)
(***************************************************************************)
\* what a run of the sync command can be answered by Expose: no processor, or
\* one processor with its algorithms
SyncRegistries ==
  { << >> } \cup
  UNION { { MkRegistry(s, [i \in 0..1 |-> i * n], 1) : s \in [1..n -> AlgoPool] }
          : n \in 0..MaxCallAlgos }

SyncInit ==
  /\ syncPc = "mkdirOut"
  /\ internalState = << >>
  /\ exposeCalls = 0
  /\ exitCode = NotExited
  /\ surfaced = NoMessage
  /\ LifeOff
  /\ call = NoCall
  /\ out = NoOut
  /\ input = << >>
  /\ pc = "idle"
  /\ ii = 1
  /\ jj = 1
  /\ usedReturnTypes = {}
  /\ globalMetadataMap = EmptyMap
  /\ globalWindowsMap = EmptyMap
  /\ supportedAlgorithms = << >>
  /\ processorDatas = << >>
  /\ mapErr = NoErr
  /\ tmplData = NilData
  /\ retErr = NoErr
  /\ dirs \in { {}, {"parent"}, {"parent", "outDir"} }
  /\ files = [f \in FileNames |-> "absent"]
  /\ touched = {}
  /\ examined = {}
  /\ runs = 0
  /\ prevData = NilData

\* fmt.Println(renderError(...)); os.Exit(1)
ExitWithError(stage, err) ==
  /\ surfaced' = [stage |-> stage, err |-> err]
  /\ exitCode' = 1
  /\ syncPc' = "exited"

\* os.MkdirAll(*outDir, 0755)
SyncMkdirOut ==
  /\ syncPc = "mkdirOut"
  /\ \E ok \in BOOLEAN :
       IF ok
       THEN /\ dirs' = dirs \cup {"parent", "outDir"}
            /\ syncPc' = "newClient"
            /\ UNCHANGED << exitCode, surfaced >>
       ELSE /\ ExitWithError("mkdirOut", PathError("EACCES"))
            /\ UNCHANGED dirs
  /\ UNCHANGED << input, pc, aggVars, retErr, files, touched, runs, prevData,
                  helperVars, internalState, exposeCalls, lifeVars >>

\* grpc.NewClient(connStr, ...)
SyncNewClient ==
  /\ syncPc = "newClient"
  /\ \E ok \in BOOLEAN :
       IF ok
       THEN syncPc' = "expose" /\ UNCHANGED << exitCode, surfaced >>
       ELSE ExitWithError("fetch", PathError("newClient"))
  /\ UNCHANGED << genVars, helperVars, internalState, exposeCalls, lifeVars >>

\* (mutant) an error of Expose is printed and the run goes on with no registry
SyncExpose_ErrorIgnored ==
  /\ syncPc = "expose"
  /\ exposeCalls' = exposeCalls + 1
  /\ \/ \E r \in SyncRegistries :
          /\ internalState' = r
          /\ UNCHANGED << exitCode, surfaced >>
     \/ /\ surfaced' = [stage |-> "fetch", err |-> PathError("rpc")]
        /\ UNCHANGED << internalState, exitCode >>
  /\ syncPc' = "generate"
  /\ UNCHANGED << genVars, helperVars, lifeVars >>

\* orcaCoreClient.Expose(...): the registry, or an error
SyncExpose ==
  /\ syncPc = "expose"
  /\ exposeCalls' = exposeCalls + 1
  /\ \/ \E r \in SyncRegistries :
          /\ internalState' = r
          /\ syncPc' = "generate"
          /\ UNCHANGED << exitCode, surfaced >>
     \/ /\ ExitWithError("fetch", PathError("rpc"))
        /\ UNCHANGED internalState
  /\ UNCHANGED << genVars, helperVars, lifeVars >>

\* stub.GeneratePythonStubs(internalState, *outDir) is called
SyncGenerate ==
  /\ syncPc = "generate"
  /\ StartRun(internalState)

\* GeneratePythonStubs returned: its error is printed and the process exits
\* with 1, or main runs to its end
SyncReport ==
  /\ syncPc = "generate"
  /\ pc = "returned"
  /\ IF retErr # NoErr
     THEN ExitWithError("generate", retErr)
     ELSE /\ exitCode' = 0
          /\ syncPc' = "exited"
          /\ UNCHANGED surfaced
  /\ UNCHANGED << genVars, helperVars, internalState, exposeCalls, lifeVars >>

\* GeneratePythonStubs panicked: the runtime prints the panic and exits with 2
SyncPanic ==
  /\ syncPc = "generate"
  /\ pc = "panicked"
  /\ surfaced' = [stage |-> "generate", err |-> PathError("panic")]
  /\ exitCode' = 2
  /\ syncPc' = "exited"
  /\ UNCHANGED << genVars, helperVars, internalState, exposeCalls, lifeVars >>

SyncNext ==
  \/ SyncMkdirOut
  \/ SyncNewClient
  \/ SyncExpose
  \/ SyncGenerate
  \/ AggStep
  \/ ProcDone
  \/ AggFinish
  \/ MkDirs
  \/ CreateInit
  \/ CreateAlgorithms
  \/ CreateWindowTypes
  \/ CreateMetadataFields
  \/ ExecAlgo
  \/ ExecWindowType
  \/ ExecMetadata
  \/ SyncReport
  \/ SyncPanic

SpecSync == SyncInit /\ [][SyncNext]_vars

\* the stages of a sync run that have begun, and those that have failed
C19_Fetched == exposeCalls > 0
C19_Aggregated == runs > 0
C19_Wrote == touched # {}
C19_FetchFailed == surfaced.stage = "fetch"
C19_AggregateFailed == mapErr # NoErr
C19_WriteFailed ==
  mapErr = NoErr /\ (pc = "panicked" \/ (pc = "returned" /\ retErr # NoErr))

C19_StagesInOrder ==
  \* no stage is run twice
  /\ exposeCalls <= 1
  /\ runs <= 1
  \* fetch, then aggregate what was fetched, then write what was aggregated
  /\ C19_Aggregated => (C19_Fetched /\ ~C19_FetchFailed /\ input = internalState)
  /\ C19_Wrote => (C19_Aggregated /\ ~C19_AggregateFailed /\ tmplData # NilData)
  \* a failed stage is the last one
  /\ C19_FetchFailed => (~C19_Aggregated /\ ~C19_Wrote /\ pc = "idle" /\ syncPc = "exited")
  /\ C19_AggregateFailed => (~C19_Wrote /\ pc = "returned")
  \* the process ends with a failure status and the error of the failed stage
  /\ syncPc = "exited" =>
       /\ exitCode \in {0, 1, 2}
       /\ exitCode = 0 <=> (pc = "returned" /\ retErr = NoErr)
       /\ exitCode = 0 => surfaced = NoMessage
       /\ C19_FetchFailed => exitCode = 1
       /\ C19_AggregateFailed =>
            (exitCode = 1 /\ surfaced = [stage |-> "generate", err |-> WrapParseError(mapErr)])
       /\ C19_WriteFailed =>
            /\ surfaced.stage = "generate"
            /\ pc = "returned" => (exitCode = 1 /\ surfaced.err = retErr)
            /\ pc = "panicked" => exitCode = 2
  /\ syncPc # "exited" => (exitCode = NotExited /\ surfaced = NoMessage)

\* C19: a sync run fetches the registry, aggregates it, then writes and
\* renders, each stage at most once; once a stage has failed no later stage
\* runs, the process ends with a non-zero status, and the error it prints is
\* that of the first stage that failed; after the exit nothing happens.
C19_FirstFailureEndsTheRun ==
  []C19_StagesInOrder /\ [][syncPc # "exited"]_vars

\* the aggregation failed after a successful fetch and the process has exited
C19_Witness ==
  /\ syncPc = "exited"
  /\ exitCode = 1
  /\ C19_Fetched
  /\ C19_AggregateFailed
  /\ surfaced.stage = "generate"
  /\ "outDir" \in dirs
  /\ examined # {}

\* C20: pythonIndent(spaces, text) is text with exactly `spaces` spaces put
\* at the start of the first line and right after every newline: the result
\* has as many lines as text, and each of its lines is `spaces` spaces
\* followed by the line of text at the same place.
C20_EveryLineIndented ==
  Returned("pythonIndent") =>
    LET before == LinesOf(call.text)
        after == LinesOf(out.text)
    IN /\ Len(after) = Len(before)
       /\ Len(out.text) = Len(call.text) + call.n * Len(before)
       /\ \A x \in 1..Len(after) :
            /\ Len(after[x]) = call.n + Len(before[x])
            /\ \A y \in 1..call.n : after[x][y] = " "
            /\ SubSeq(after[x], call.n + 1, Len(after[x])) = before[x]

\* three lines, the middle one empty, indented by two
C20_Witness ==
  /\ Returned("pythonIndent")
  /\ call.n = 2
  /\ call.text = << "a", "\n", "\n", " ", "a" >>
  /\ out.text = << " ", " ", "a", "\n", " ", " ", "\n", " ", " ", " ", "a" >>

\* what a step of the directory and file creation does when the run goes on:
\* no directory step has failed with anything but "already exists"
C21_Step ==
  /\ (pc = "mkdir" /\ pc' = "createInit") =>
       \E denied \in {Nil} \cup SeqRange(DirChain) :
         /\ MkdirErr(dirs, denied) \in {Nil, "EEXIST"}
         /\ MkdirAllStop(dirs \cup {"outDir"}, denied) = 0
         /\ dirs' = MkdirAllDirs(dirs \cup {"outDir"}, denied)
  /\ (pc = "mkdir" /\ pc' = "returned") =>
       /\ retErr' # NoErr
       /\ ~IsExist(retErr'.kind)
       /\ files' = files
  /\ (pc \in {"createInit", "createAlgorithms", "createWindowTypes", "createMetadataFields"}
        /\ pc' = "returned") =>
       /\ retErr' \in { PathError(e) : e \in CreateErrors \ {Nil} }
       /\ files' = files
       /\ dirs' = dirs

\* C21: in GeneratePythonStubs every failure of a directory-creation or
\* file-creation step other than "already exists" aborts the run: the error of
\* that step is returned unchanged and no later filesystem step or template
\* execution is performed; no such error is overwritten or ignored by a later
\* step.
C21_EveryCreationFailureAborts ==
  [][C21_Step]_vars

\* C22: the model of a successful aggregation has one processor entry per
\* input processor in registry order, and each processor entry has one
\* algorithm entry per input algorithm in per-processor order, with that
\* algorithm's name, version, description, processor name and processor
\* runtime: no algorithm is dropped, duplicated, reordered or moved to another
\* processor, also when its window or metadata fields were deduplicated.
C22_OneEntryPerAlgorithmInOrder ==
  AggReturned =>
    /\ Len(tmplData.Processors) = Len(input)
    /\ \A i \in 1..Len(input) :
         LET proc == input[i]
             data == tmplData.Processors[i]
         IN /\ data.Name = proc.name
            /\ Len(data.Algorithms) = Len(proc.supportedAlgorithms)
            /\ \A j \in 1..Len(proc.supportedAlgorithms) :
                 /\ data.Algorithms[j].Name = proc.supportedAlgorithms[j].name
                 /\ data.Algorithms[j].Version = proc.supportedAlgorithms[j].version
                 /\ data.Algorithms[j].Description = proc.supportedAlgorithms[j].description
                 /\ data.Algorithms[j].ProcessorName = proc.name
                 /\ data.Algorithms[j].ProcessorRuntime = proc.runtime

\* two processors, three algorithms with different names, all of them sharing
\* one window key and some metadata field name
C22_Witness ==
  /\ AggReturned
  /\ Len(input) = 2
  /\ Len(input[1].supportedAlgorithms) = 1
  /\ Len(input[2].supportedAlgorithms) = 2
  /\ input[1].supportedAlgorithms[1].name # input[2].supportedAlgorithms[1].name
  /\ input[2].supportedAlgorithms[1].name # input[2].supportedAlgorithms[2].name
  /\ Len(tmplData.AllWindows) = 1
  /\ Len(tmplData.AllMetadata) < Cardinality(FieldPositions(input))
  /\ tmplData.Processors[2].Algorithms[2].Name = input[2].supportedAlgorithms[2].name

\* the result kinds a model may carry
C23_ReturnKinds == {"ArrayResult", "StructResult", "ValueResult", "NoneResult"}

\* C23: for result-kind tags among ARRAY, STRUCT, VALUE, NONE and
\* NOT_SPECIFIED the mapping is one to one (ARRAY to ArrayResult, STRUCT to
\* StructResult, VALUE to ValueResult, NONE to NoneResult), and every algorithm
\* of every successfully returned model has a return kind that is one of these
\* four values, the one its tag maps to: never empty, never another value.
C23_ReturnKindIsOneOfFour ==
  /\ ReturnTypeOf("ARRAY") = "ArrayResult"
  /\ ReturnTypeOf("STRUCT") = "StructResult"
  /\ ReturnTypeOf("VALUE") = "ValueResult"
  /\ ReturnTypeOf("NONE") = "NoneResult"
  /\ Succeeded =>
       /\ NotSpecifiedAt(input) = {}
       /\ \A p \in Positions(input) :
            /\ ModelAlgoAt(p).ReturnType \in C23_ReturnKinds
            /\ ModelAlgoAt(p).ReturnType = ReturnTypeOf(AlgoAt(input, p).resultType)
            /\ \A q \in Positions(input) :
                 ModelAlgoAt(p).ReturnType = ModelAlgoAt(q).ReturnType
                   <=> AlgoAt(input, p).resultType = AlgoAt(input, q).resultType

\* a model with three algorithms of three kinds, NONE among them
C23_Witness ==
  /\ AggReturned
  /\ Cardinality(Positions(input)) = 3
  /\ { ModelAlgoAt(p).ReturnType : p \in Positions(input) }
       = {"NoneResult", "ArrayResult", "StructResult"}
  /\ { AlgoAt(input, p).resultType : p \in Positions(input) } = {"NONE", "ARRAY", "STRUCT"}

(***************************************************************************)
(* The start command (main, case "start") after its arguments are parsed,  *)
(* with waitForPgReady and checkPostgresReady (utils.go).  startPostgres,  *)
(* startRedis and startOrca are called by main but their bodies are not    *)
(* among the source files: each is taken to start the container it is      *)
(* named after, and to return or to end the process as the other docker    *)
(* helpers do on a failed command.                                         *)
(***************************************************************************)
\* readiness checks before the 15 seconds of the context are over
MaxChecks == 3

\* "timeout waiting for container %s to be ready"
TimeoutError == [kind |-> "timeout"]

\* a docker command the process has run, and how it ended
Op(op, target, result) == [op |-> op, target |-> target, result |-> result]

\* fmt.Println(...); os.Exit(1) in start
LifeExit(stage, err) ==
  /\ surfaced' = [stage |-> stage, err |-> err]
  /\ exitCode' = 1
  /\ lifePc' = "exited"

StartInit ==
  /\ lifePc = "checkDocker"
  /\ ops = << >>
  /\ ctxDone = FALSE
  /\ waitErr = Waiting
  /\ response = << >>
  /\ docker \in { NoDocker, [NoDocker EXCEPT !.network = TRUE] }
  /\ syncPc = "off"
  /\ internalState = << >>
  /\ exposeCalls = 0
  /\ exitCode = NotExited
  /\ surfaced = NoMessage
  /\ call = NoCall
  /\ out = NoOut
  /\ input = << >>
  /\ pc = "idle"
  /\ ii = 1
  /\ jj = 1
  /\ usedReturnTypes = {}
  /\ globalMetadataMap = EmptyMap
  /\ globalWindowsMap = EmptyMap
  /\ supportedAlgorithms = << >>
  /\ processorDatas = << >>
  /\ mapErr = NoErr
  /\ tmplData = NilData
  /\ retErr = NoErr
  /\ dirs = {}
  /\ files = [f \in FileNames |-> "absent"]
  /\ touched = {}
  /\ examined = {}
  /\ runs = 0
  /\ prevData = NilData

\* what the start command leaves alone
StartFrame ==
  UNCHANGED << genVars, helperVars, syncPc, internalState, exposeCalls, response >>

\* checkDockerInstalled: docker --version, then docker info
StartCheckDocker ==
  /\ lifePc = "checkDocker"
  /\ \E version, info \in BOOLEAN :
       IF version /\ info
       THEN lifePc' = "network" /\ UNCHANGED << exitCode, surfaced >>
       ELSE LifeExit("docker", PathError(IF version THEN "info" ELSE "version"))
  /\ UNCHANGED << ops, ctxDone, waitErr, docker >>
  /\ StartFrame

\* createNetworkIfNotExists: the network is created unless docker network ls
\* lists it; a failed creation ends the process in streamCommandOutput
StartNetwork ==
  /\ lifePc = "network"
  /\ \E listed \in BOOLEAN :
       IF listed /\ docker.network
       THEN /\ lifePc' = "postgres"
            /\ UNCHANGED << ops, docker, exitCode, surfaced >>
       ELSE IF docker.network
       THEN \* docker network create fails: the network exists
            /\ ops' = Append(ops, Op("network create", networkName, "failed"))
            /\ LifeExit("network", PathError("exit"))
            /\ UNCHANGED docker
       ELSE \E ok \in BOOLEAN :
            /\ ops' = Append(ops, Op("network create", networkName,
                                     IF ok THEN "ok" ELSE "failed"))
            /\ IF ok
               THEN /\ docker' = [docker EXCEPT !.network = TRUE]
                    /\ lifePc' = "postgres"
                    /\ UNCHANGED << exitCode, surfaced >>
               ELSE /\ LifeExit("network", PathError("exit"))
                    /\ UNCHANGED docker
  /\ UNCHANGED << ctxDone, waitErr >>
  /\ StartFrame

\* startPostgres, startRedis, startOrca: the container is running when the
\* call returns
StartContainer(from, containerName, to) ==
  /\ lifePc = from
  /\ \E ok \in BOOLEAN :
       /\ ops' = Append(ops, Op("start", containerName, IF ok THEN "ok" ELSE "failed"))
       /\ IF ok
          THEN /\ docker' = [docker EXCEPT !.status[containerName] = "running"]
               /\ lifePc' = to
               /\ UNCHANGED << exitCode, surfaced >>
          ELSE /\ LifeExit("start", PathError("exit"))
               /\ UNCHANGED docker
  /\ UNCHANGED << ctxDone, waitErr >>
  /\ StartFrame

StartPostgres == StartContainer("postgres", pgContainerName, "redis")

\* after startRedis main makes the context and calls waitForPgReady
StartRedis == StartContainer("redis", redisContainerName, "waitSelect")

\* the 15 seconds of context.WithTimeout are over
CtxTimeout ==
  /\ lifePc \in {"waitSelect", "waitCheck", "waitSleep"}
  /\ ~ctxDone
  /\ ctxDone' = TRUE
  /\ UNCHANGED << lifePc, ops, waitErr, docker, exitCode, surfaced >>
  /\ StartFrame

\* how docker exec ... pg_isready can end: no error, an exit error with its
\* code (-1 when the process was killed), or another error
PgIsReadyRuns ==
  { [err |-> "nil", code |-> 0], [err |-> "other", code |-> 0] } \cup
  { [err |-> "exit", code |-> c] : c \in {1, 2, 3, 4, -1} }

\* checkPostgresReady: (healthy, err != nil)
checkPostgresReady(run) ==
  IF run.err = "nil" THEN [healthy |-> TRUE, failed |-> FALSE]
  ELSE IF run.err = "exit"
  THEN IF run.code = 0 THEN [healthy |-> TRUE, failed |-> FALSE]
       ELSE IF run.code \in {1, 2, 3} THEN [healthy |-> FALSE, failed |-> FALSE]
       ELSE [healthy |-> FALSE, failed |-> TRUE]
  ELSE [healthy |-> FALSE, failed |-> TRUE]

\* the checks of this wait so far
ChecksDone == Len(SelectSeq(ops, LAMBDA o : o.op = "pg_isready"))

\* waitForPgReady, the outer select: the context is done, or the default case
WaitSelect ==
  /\ lifePc = "waitSelect"
  /\ IF ctxDone
     THEN waitErr' = TimeoutError /\ lifePc' = "waitReturned"
     ELSE ChecksDone < MaxChecks /\ lifePc' = "waitCheck" /\ UNCHANGED waitErr
  /\ UNCHANGED << ops, ctxDone, docker, exitCode, surfaced >>
  /\ StartFrame

\* (mutant) an error of the readiness check is returned to the caller
WaitCheck_ErrorEndsLoop ==
  /\ lifePc = "waitCheck"
  /\ \E run \in PgIsReadyRuns :
       LET r == checkPostgresReady(run) IN
       /\ ops' = Append(ops, Op("pg_isready", pgContainerName,
                                IF r.failed THEN "error"
                                ELSE IF r.healthy THEN "ready" ELSE "notReady"))
       /\ IF r.failed
          THEN waitErr' = PathError("pg_isready") /\ lifePc' = "waitReturned"
          ELSE IF r.healthy
          THEN waitErr' = NoErr /\ lifePc' = "waitReturned"
          ELSE lifePc' = "waitSleep" /\ UNCHANGED waitErr
  /\ UNCHANGED << ctxDone, docker, exitCode, surfaced >>
  /\ StartFrame

\* waitForPgReady, the default case: the check; its error is printed only
WaitCheck ==
  /\ lifePc = "waitCheck"
  /\ \E run \in PgIsReadyRuns :
       LET r == checkPostgresReady(run) IN
       /\ ops' = Append(ops, Op("pg_isready", pgContainerName,
                                IF r.failed THEN "error"
                                ELSE IF r.healthy THEN "ready" ELSE "notReady"))
       /\ IF ~r.failed /\ r.healthy
          THEN waitErr' = NoErr /\ lifePc' = "waitReturned"
          ELSE lifePc' = "waitSleep" /\ UNCHANGED waitErr
  /\ UNCHANGED << ctxDone, docker, exitCode, surfaced >>
  /\ StartFrame

\* waitForPgReady, the inner select: the context is done, or checkInterval
\* has passed (when both are ready either case may be taken)
WaitSleep ==
  /\ lifePc = "waitSleep"
  /\ \/ ctxDone /\ waitErr' = TimeoutError /\ lifePc' = "waitReturned"
     \/ lifePc' = "waitSelect" /\ UNCHANGED waitErr
  /\ UNCHANGED << ops, ctxDone, docker, exitCode, surfaced >>
  /\ StartFrame

waitForPgReady == WaitSelect \/ WaitCheck \/ WaitSleep

\* (mutant) the error of the wait is printed and Orca is started all the same
StartAfterWait_ErrorIgnored ==
  /\ lifePc = "waitReturned"
  /\ IF waitErr # NoErr
     THEN surfaced' = [stage |-> "wait", err |-> waitErr]
     ELSE UNCHANGED surfaced
  /\ lifePc' = "orca"
  /\ UNCHANGED << ops, ctxDone, waitErr, docker, exitCode >>
  /\ StartFrame

\* main tests what waitForPgReady returned
StartAfterWait ==
  /\ lifePc = "waitReturned"
  /\ IF waitErr # NoErr
     THEN LifeExit("wait", waitErr)
     ELSE lifePc' = "orca" /\ UNCHANGED << exitCode, surfaced >>
  /\ UNCHANGED << ops, ctxDone, waitErr, docker >>
  /\ StartFrame

StartOrca == StartContainer("orca", orcaContainerName, "started")

\* "Orca stack started successfully.": main runs to its end
StartDone ==
  /\ lifePc = "started"
  /\ lifePc' = "exited"
  /\ exitCode' = 0
  /\ UNCHANGED << ops, ctxDone, waitErr, docker, surfaced >>
  /\ StartFrame

StartNext ==
  \/ StartCheckDocker
  \/ StartNetwork
  \/ StartPostgres
  \/ StartRedis
  \/ CtxTimeout
  \/ WaitSelect
  \/ WaitCheck
  \/ WaitSleep
  \/ StartAfterWait
  \/ StartOrca
  \/ StartDone

\* the process runs on: the loop of waitForPgReady takes its next step
SpecStart == StartInit /\ [][StartNext]_vars /\ WF_vars(waitForPgReady)

\* the place of a docker operation in the order of the start command
C24_Rank(o) ==
  CASE o.op = "network create" -> 1
    [] o.op = "start" /\ o.target = pgContainerName -> 2
    [] o.op = "start" /\ o.target = redisContainerName -> 3
    [] o.op = "pg_isready" -> 4
    [] o.op = "start" /\ o.target = orcaContainerName -> 5

\* the operations of the start command that start the Orca container
C24_OrcaStarts == { x \in 1..Len(ops) : C24_Rank(ops[x]) = 5 }

\* C24: in the start command the steps run in the order create network,
\* start Postgres, start Redis, wait for Postgres readiness, start Orca; the
\* Orca container is started only after waitForPgReady has returned success
\* (its last check reported ready), and when the wait ends with a timeout the
\* Orca container is never started and the process exits with failure.
C24_OrcaOnlyAfterPostgresIsReady ==
  /\ \A x, y \in 1..Len(ops) : x < y =>
       /\ C24_Rank(ops[x]) <= C24_Rank(ops[y])
       /\ C24_Rank(ops[x]) = C24_Rank(ops[y]) => C24_Rank(ops[x]) = 4
       \* a failed step is the last one
       /\ ops[x].result # "failed"
  /\ \A y \in C24_OrcaStarts :
       /\ waitErr = NoErr
       /\ y > 3
       /\ ops[y - 1] = Op("pg_isready", pgContainerName, "ready")
       /\ ops[y - 1 - ChecksDone] = Op("start", redisContainerName, "ok")
       /\ ops[y - 2 - ChecksDone] = Op("start", pgContainerName, "ok")
       /\ docker.network
  /\ lifePc \in {"orca", "started"} => waitErr = NoErr
  /\ waitErr = TimeoutError =>
       /\ C24_OrcaStarts = {}
       /\ docker.status[orcaContainerName] # "running"
       /\ lifePc \in {"waitReturned", "exited"}
       /\ lifePc = "exited" =>
            (exitCode = 1 /\ surfaced = [stage |-> "wait", err |-> TimeoutError])
  /\ exitCode = 0 =>
       (C24_OrcaStarts # {} /\ ops[Len(ops)] = Op("start", orcaContainerName, "ok"))

\* Orca was started after a wait of MaxChecks checks, the last of which found
\* Postgres ready while the context was done already
C24_Witness ==
  /\ lifePc = "exited"
  /\ exitCode = 0
  /\ ChecksDone = MaxChecks
  /\ ctxDone
  /\ Len(ops) = MaxChecks + 4
  /\ ops[1].op = "network create"
  /\ ops[4].result = "error"
  /\ ops[Len(ops)] = Op("start", orcaContainerName, "ok")

\* the outcomes of the readiness checks of the wait, in order
C25_Outcomes ==
  LET checks == SelectSeq(ops, LAMBDA o : o.op = "pg_isready")
  IN [x \in 1..Len(checks) |-> checks[x].result]

\* what waitForPgReady has returned, against the checks it made
C25_ReturnValue ==
  LET outcomes == C25_Outcomes
      n == Len(outcomes)
  IN /\ waitErr \in {Waiting, NoErr, TimeoutError}
     \* the first check that reports ready is the last one
     /\ \A x \in 1..n : outcomes[x] = "ready" => (x = n /\ waitErr = NoErr)
     /\ waitErr = NoErr => (n > 0 /\ outcomes[n] = "ready")
     /\ waitErr = TimeoutError => ctxDone
     /\ (lifePc = "waitReturned" /\ ~ctxDone) => waitErr = NoErr

\* what a step of the loop does: a check that fails or finds the server not
\* ready leads to the pause and from there to the next check, and the loop is
\* left for no other reason than a ready server or a done context
C25_LoopStep ==
  /\ (lifePc = "waitCheck" /\ lifePc' # "waitCheck") =>
       IF ops'[Len(ops')].result = "ready"
       THEN lifePc' = "waitReturned" /\ waitErr' = NoErr
       ELSE lifePc' = "waitSleep" /\ waitErr' = Waiting
  /\ (lifePc = "waitSleep" /\ lifePc' # "waitSleep") =>
       \/ lifePc' = "waitSelect" /\ waitErr' = Waiting
       \/ lifePc' = "waitReturned" /\ waitErr' = TimeoutError /\ ctxDone
  /\ (lifePc = "waitSelect" /\ lifePc' # "waitSelect") =>
       IF ctxDone
       THEN lifePc' = "waitReturned" /\ waitErr' = TimeoutError
       ELSE lifePc' = "waitCheck" /\ waitErr' = Waiting

\* C25: waitForPgReady terminates once its context is done; it returns nil
\* only after a readiness check reported the server ready, returns the
\* timeout error when the context is done before any check reported ready,
\* and an error of a single readiness check never ends the loop: the check is
\* made again after checkInterval.
C25_WaitEndsWhenContextIsDone ==
  /\ []C25_ReturnValue
  /\ [][C25_LoopStep]_vars
  /\ (ctxDone ~> waitErr # Waiting)

\* the wait timed out after a check that failed and one that found the server
\* not ready
C25_Witness ==
  /\ waitErr = TimeoutError
  /\ ctxDone
  /\ C25_Outcomes = << "error", "notReady" >>
  /\ lifePc = "waitReturned"

(***************************************************************************)
(* The destroy command (utils.go: destroy, stopContainers,                 *)
(* getContainerStatus), from the question on.                              *)
(***************************************************************************)
\* strings.ToLower
StringsToLower(s) == [x \in 1..Len(s) |-> IF IsUpper(s[x]) THEN ToLower(s[x]) ELSE s[x]]

\* what fmt.Scanln may have stored in response
Responses ==
  { << >>, << "y" >>, << "Y" >>, << "n" >>, << "y", "e", "s" >>, << "Y", "y" >> }

\* what exists when destroy is run: the whole stack running, a part of it, or
\* nothing at all
DockerStates ==
  { [status |-> st, volumes |-> v, network |-> n] :
      st \in { [c \in SeqRange(orcaContainers) |-> "running"],
               (pgContainerName :> "running") @@ (redisContainerName :> "stopped")
                 @@ (orcaContainerName :> "not found"),
               [c \in SeqRange(orcaContainers) |-> "not found"] },
      v \in { SeqRange(orcaVolumes), {orcaVolumes[1]} },
      n \in BOOLEAN }

DestroyInit ==
  /\ lifePc = "ask"
  /\ ops = << >>
  /\ ctxDone = FALSE
  /\ waitErr = Waiting
  /\ response = << >>
  /\ docker \in DockerStates
  /\ syncPc = "off"
  /\ internalState = << >>
  /\ exposeCalls = 0
  /\ exitCode = NotExited
  /\ surfaced = NoMessage
  /\ call = NoCall
  /\ out = NoOut
  /\ input = << >>
  /\ pc = "idle"
  /\ ii = 1
  /\ jj = 1
  /\ usedReturnTypes = {}
  /\ globalMetadataMap = EmptyMap
  /\ globalWindowsMap = EmptyMap
  /\ supportedAlgorithms = << >>
  /\ processorDatas = << >>
  /\ mapErr = NoErr
  /\ tmplData = NilData
  /\ retErr = NoErr
  /\ dirs = {}
  /\ files = [f \in FileNames |-> "absent"]
  /\ touched = {}
  /\ examined = {}
  /\ runs = 0
  /\ prevData = NilData

\* what the destroy command leaves alone
DestroyFrame ==
  UNCHANGED << genVars, helperVars, syncPc, internalState, exposeCalls, surfaced,
               ctxDone, waitErr >>

\* the operations of one kind run so far: the loops are at the next element
Done(op) == Len(SelectSeq(ops, LAMBDA o : o.op = op))

\* (mutant) everything but "n" is taken for a yes
DestroyAsk_DefaultYes ==
  /\ lifePc = "ask"
  /\ \E r \in Responses :
       /\ response' = r
       /\ IF StringsToLower(r) = << "n" >>
          THEN lifePc' = "exited" /\ exitCode' = 0
          ELSE lifePc' = "stop" /\ UNCHANGED exitCode
  /\ UNCHANGED << ops, docker >>
  /\ DestroyFrame

\* fmt.Scanln(&response); if strings.ToLower(response) != "y" { return }
DestroyAsk ==
  /\ lifePc = "ask"
  /\ \E r \in Responses :
       /\ response' = r
       /\ IF StringsToLower(r) # << "y" >>
          THEN lifePc' = "exited" /\ exitCode' = 0
          ELSE lifePc' = "stop" /\ UNCHANGED exitCode
  /\ UNCHANGED << ops, docker >>
  /\ DestroyFrame

\* one iteration of stopContainers: getContainerStatus answers "not found"
\* when docker ps fails; a running container is stopped, and an error of
\* docker stop is printed only
StopContainer ==
  /\ lifePc = "stop"
  /\ LET i == Done("ps") + 1
         c == orcaContainers[i]
     IN \E listed, ok \in BOOLEAN :
          LET status == IF listed THEN docker.status[c] ELSE "not found" IN
          /\ ops' = ops \o << Op("ps", c, status) >>
                        \o (IF status = "running"
                            THEN << Op("stop", c, IF ok THEN "ok" ELSE "failed") >>
                            ELSE << >>)
          /\ docker' = IF status = "running" /\ ok
                       THEN [docker EXCEPT !.status[c] = "stopped"]
                       ELSE docker
          /\ (status # "running" => ok)
          /\ lifePc' = IF i = Len(orcaContainers) THEN "rm" ELSE "stop"
  /\ UNCHANGED << response, exitCode >>
  /\ DestroyFrame

\* one iteration of the loop over orcaContainers: docker rm -f
RemoveContainer ==
  /\ lifePc = "rm"
  /\ LET i == Done("rm") + 1
         c == orcaContainers[i]
     IN \E ok \in BOOLEAN :
          /\ ops' = Append(ops, Op("rm", c, IF ok THEN "ok" ELSE "failed"))
          /\ docker' = IF ok THEN [docker EXCEPT !.status[c] = "not found"] ELSE docker
          /\ lifePc' = IF i = Len(orcaContainers) THEN "volume" ELSE "rm"
  /\ UNCHANGED << response, exitCode >>
  /\ DestroyFrame

\* one iteration of the loop over orcaVolumes: docker volume rm fails when
\* the volume does not exist or its container still does
RemoveVolume ==
  /\ lifePc = "volume"
  /\ LET i == Done("volume rm") + 1
         v == orcaVolumes[i]
         removable == v \in docker.volumes /\ docker.status[orcaContainers[i]] = "not found"
     IN \E ok \in BOOLEAN :
          /\ ok => removable
          /\ ops' = Append(ops, Op("volume rm", v, IF ok THEN "ok" ELSE "failed"))
          /\ docker' = IF ok THEN [docker EXCEPT !.volumes = @ \ {v}] ELSE docker
          /\ lifePc' = IF i = Len(orcaVolumes) THEN "network" ELSE "volume"
  /\ UNCHANGED << response, exitCode >>
  /\ DestroyFrame

\* docker network rm orca-network, then the instructions; destroy returns and
\* main runs to its end
RemoveNetwork ==
  /\ lifePc = "network"
  /\ \E ok \in BOOLEAN :
       /\ ok => docker.network
       /\ ops' = Append(ops, Op("network rm", networkName, IF ok THEN "ok" ELSE "failed"))
       /\ docker' = IF ok THEN [docker EXCEPT !.network = FALSE] ELSE docker
  /\ lifePc' = "exited"
  /\ exitCode' = 0
  /\ UNCHANGED response
  /\ DestroyFrame

DestroyNext ==
  \/ DestroyAsk
  \/ StopContainer
  \/ RemoveContainer
  \/ RemoveVolume
  \/ RemoveNetwork

SpecDestroy == DestroyInit /\ [][DestroyNext]_vars

\* the user has answered "y" or "Y"
C26_Confirmed == StringsToLower(response) = << "y" >>

\* the phase of destroy an operation belongs to
C26_Phase(o) ==
  CASE o.op \in {"ps", "stop"} -> 1
    [] o.op = "rm" -> 2
    [] o.op = "volume rm" -> 3
    [] o.op = "network rm" -> 4

\* the targets of the operations of one kind, in the order they were run
C26_Targets(op) ==
  LET sel == SelectSeq(ops, LAMBDA o : o.op = op) IN [x \in 1..Len(sel) |-> sel[x].target]

C26_State ==
  \* without the confirmation nothing is run
  /\ ~C26_Confirmed => (ops = << >> /\ lifePc \in {"ask", "exited"})
  \* stops, then removals of containers, then of volumes, then of the network
  /\ \A x, y \in 1..Len(ops) : x < y => C26_Phase(ops[x]) <= C26_Phase(ops[y])
  \* a container is stopped only when it was just seen running
  /\ \A x \in 1..Len(ops) :
       ops[x].op = "stop" =>
         (x > 1 /\ ops[x - 1] = Op("ps", ops[x].target, "running"))
  \* whatever failed, every removal has been attempted once when destroy returns
  /\ (lifePc = "exited" /\ C26_Confirmed) =>
       /\ C26_Targets("ps") = orcaContainers
       /\ C26_Targets("rm") = orcaContainers
       /\ C26_Targets("volume rm") = orcaVolumes
       /\ C26_Targets("network rm") = << networkName >>
  /\ lifePc = "exited" => exitCode = 0

\* nothing in docker changes without the confirmation, and what changes is
\* what the operation just run has stopped or removed
C26_Step ==
  /\ docker' # docker => (C26_Confirmed /\ Len(ops') > Len(ops) /\ ops'[Len(ops')].result = "ok")
  /\ ops' # ops => (C26_Confirmed /\ SubSeq(ops', 1, Len(ops)) = ops)

\* C26: destroy performs no destructive operation without confirmation: unless
\* the response is "y" (case-insensitive) no container is stopped or removed,
\* no volume is removed and the network is not removed; after confirmation
\* the containers are stopped before they are removed, then the volumes are
\* removed, then the network, and a failure of one removal does not prevent
\* the remaining removals from being attempted.
C26_NothingDestroyedWithoutConfirmation ==
  []C26_State /\ [][C26_Step]_vars

\* confirmed with "Y": a stop and the removal of a container and of a volume
\* failed, and the removals after them were made all the same
C26_Witness ==
  /\ lifePc = "exited"
  /\ response = << "Y" >>
  /\ \E x, y \in 1..Len(ops) :
       /\ x < y
       /\ ops[x] = Op("stop", pgContainerName, "failed")
       /\ ops[y] = Op("rm", pgContainerName, "failed")
       /\ ops[y + 1] = Op("rm", redisContainerName, "ok")
  /\ ops[Len(ops) - 2] = Op("volume rm", orcaVolumes[1], "failed")
  /\ ops[Len(ops) - 1] = Op("volume rm", orcaVolumes[2], "ok")
  /\ ops[Len(ops)] = Op("network rm", networkName, "ok")
  /\ ~docker.network

(***************************************************************************)
(* mapInternalStateToTmpl on registries whose windows have different keys, *)
(* share field names and give them different descriptions.                 *)
(***************************************************************************)
WindowsWindowPool ==
  << [name |-> <<"w">>, version |-> <<"1">>, description |-> <<"d">>,
      metadataFields |-> << Field(<<"a">>, <<"d">>), Field(<<"b">>, <<"d">>) >>],
     \* another window with the field b, described otherwise
     [name |-> <<"v">>, version |-> <<"1">>, description |-> <<"d">>,
      metadataFields |-> << Field(<<"b">>, <<"e">>) >>],
     \* the name of the first window, another version
     [name |-> <<"w">>, version |-> <<"2">>, description |-> <<"e">>,
      metadataFields |-> << >>],
     \* the name and version of the first window, other fields
     [name |-> <<"w">>, version |-> <<"1">>, description |-> <<"e">>,
      metadataFields |-> << Field(<<"c">>, <<"d">>) >>] >>

WindowsAlgoPool ==
  { Algo(<<"F">>, <<"1">>, WindowsWindowPool[1], "VALUE"),
    Algo(<<"G">>, <<"1">>, WindowsWindowPool[2], "ARRAY"),
    Algo(<<"H">>, <<"2">>, WindowsWindowPool[3], "NONE"),
    Algo(<<"F">>, <<"2">>, WindowsWindowPool[4], "STRUCT") }

WindowsRegistries ==
  UNION { UNION { { MkRegistry(s, c, k) : s \in [1..n -> WindowsAlgoPool], c \in Cuts(n, k) }
                  : n \in (IF k = 0 THEN {0} ELSE 0..MaxCallAlgos) }
          : k \in 0..MaxProcs }

\* one call of mapInternalStateToTmpl on a registry of WindowsRegistries
WindowsNext ==
  \/ \E r \in WindowsRegistries : StartRun(r)
  \/ AggStep
  \/ ProcDone
  \/ AggFinish

SpecWindows == Init /\ [][WindowsNext]_vars

\* C27: in every successfully returned model, each metadata entry in the
\* field list of every global window is identical (same name, same
\* description) to the entry with that name in the global metadata list, also
\* when the same field name occurs in the registry with different
\* descriptions.
C27_WindowFieldsMatchGlobalMetadata ==
  Succeeded =>
    \A x \in 1..Len(tmplData.AllWindows) :
      \A k \in 1..Len(tmplData.AllWindows[x].Metadata) :
        \A y \in 1..Len(tmplData.AllMetadata) :
          tmplData.AllMetadata[y].KeyName = tmplData.AllWindows[x].Metadata[k].KeyName
            => tmplData.AllMetadata[y] = tmplData.AllWindows[x].Metadata[k]

\* C28: referential integrity of the model: in every successfully returned
\* model each algorithm's window reference (WindowVarName) is the VarName of
\* exactly one window of the global window list, and every field name in the
\* field list of every global window is the name of exactly one entry of the
\* global metadata list.
C28_ReferencesResolve ==
  Succeeded =>
    /\ \A p \in Positions(input) :
         Cardinality({ x \in 1..Len(tmplData.AllWindows) :
                         tmplData.AllWindows[x].VarName = ModelAlgoAt(p).WindowVarName }) = 1
    /\ \A x \in 1..Len(tmplData.AllWindows) :
         \A k \in 1..Len(tmplData.AllWindows[x].Metadata) :
           Cardinality({ y \in 1..Len(tmplData.AllMetadata) :
                           tmplData.AllMetadata[y].KeyName
                             = tmplData.AllWindows[x].Metadata[k].KeyName }) = 1

\* two algorithms on two windows that share a field name
C28_Witness ==
  /\ Succeeded
  /\ Len(tmplData.AllWindows) = 2
  /\ Len(tmplData.AllMetadata) = 2
  /\ Len(tmplData.AllWindows[1].Metadata) + Len(tmplData.AllWindows[2].Metadata) = 3
  /\ \E p, q \in Positions(input) :
       ModelAlgoAt(p).WindowVarName # ModelAlgoAt(q).WindowVarName

\* C29: window types are merged only when both name and version are equal:
\* two algorithms whose windows differ in name or in version always yield two
\* separate entries of the global window list, with different VarNames, for
\* all window names and versions, also ones that contain '_'.
C29_MergedOnlyWhenNameAndVersionEqual ==
  AggReturned =>
    \A p, q \in Positions(input) :
      (\/ AlgoAt(input, p).windowType.name # AlgoAt(input, q).windowType.name
       \/ AlgoAt(input, p).windowType.version # AlgoAt(input, q).windowType.version)
      => /\ ModelAlgoAt(p).WindowVarName # ModelAlgoAt(q).WindowVarName
         /\ \E x, y \in 1..Len(tmplData.AllWindows) :
              /\ x # y
              /\ tmplData.AllWindows[x].VarName = ModelAlgoAt(p).WindowVarName
              /\ tmplData.AllWindows[y].VarName = ModelAlgoAt(q).WindowVarName

\* C30: wrapText only changes whitespace: for every limit and text, the words
\* of the result (its split on whitespace) are exactly the words of the input,
\* in order; no line of the result is empty, the result neither starts nor
\* ends with whitespace, and empty or whitespace-only input yields the empty
\* string.
C30_OnlyWhitespaceChanges ==
  Returned("wrapText") =>
    /\ Fields(out.text) = Fields(call.text)
    /\ out.text # << >> =>
         /\ \A x \in 1..Len(LinesOf(out.text)) : LinesOf(out.text)[x] # << >>
         /\ ~IsSpace(out.text[1])
         /\ ~IsSpace(out.text[Len(out.text)])
    /\ (\A x \in 1..Len(call.text) : IsSpace(call.text[x])) <=> out.text = << >>

\* two words between spaces and a newline, wrapped at a limit shorter than the
\* second word
C30_Witness ==
  /\ Returned("wrapText")
  /\ call.n = 1
  /\ call.text = << "a", " ", "\n", "a", "a", " " >>
  /\ out.text = << "a", "\n", "a", "a" >>

====
